---------------------------- MODULE Spec2Model ----------------------------
(***************************************************************************)
(* The classification query language of the timesheet application: the    *)
(* recursive-descent parser of services/query_parser.py and the evaluator *)
(* of services/query_evaluator.py.                                         *)
(*                                                                         *)
(* A Python str is modelled as a sequence of one-character strings, so    *)
(* that the parser's cursor, the quoting rules and the rendering of an    *)
(* AST back to text are computed character by character as the code does. *)
(* Cursor positions are Python's 0-based indices: the character at        *)
(* position p of q is q[p + 1].  A character outside ASCII is written by  *)
(* the name of its code point, "U+201C" for the left double quotation     *)
(* mark.                                                                   *)
(***************************************************************************)
EXTENDS Integers, Sequences, FiniteSets, TLC

(***************************************************************************)
(* Bounds of the model.                                                    *)
(***************************************************************************)
\* Loop iterations that leave the cursor in place are counted from 1 up to
\* here and then from 1 again, so an endless loop is a cycle of the model.
MaxSpins == 2
\* Top-level pieces joined into one input string.
MaxItems == 2
\* Members written inside one generated group.
MaxMembers == 2
MaxCalls == 3
MaxRules == 2
MaxRequests == 2
\* Runs of the calendar sync and of the apply-rules endpoint in a row.
MaxRuns == 2

(***************************************************************************)
(* Characters.                                                             *)
(***************************************************************************)
LowerAlpha == <<"a","b","c","d","e","f","g","h","i","j","k","l","m",
                "n","o","p","q","r","s","t","u","v","w","x","y","z">>
UpperAlpha == <<"A","B","C","D","E","F","G","H","I","J","K","L","M",
                "N","O","P","Q","R","S","T","U","V","W","X","Y","Z">>
Digits == <<"0","1","2","3","4","5","6","7","8","9">>

Range(s) == {s[i] : i \in 1..Len(s)}

IsLetter(c) == c \in Range(LowerAlpha) \cup Range(UpperAlpha)
IsDigit(c) == c \in Range(Digits)

\* str.lower() and str.upper() on one character (ASCII letters).
LowerChar(c) ==
    IF c \in Range(UpperAlpha)
    THEN LowerAlpha[CHOOSE i \in 1..26 : UpperAlpha[i] = c]
    ELSE c
UpperChar(c) ==
    IF c \in Range(LowerAlpha)
    THEN UpperAlpha[CHOOSE i \in 1..26 : LowerAlpha[i] = c]
    ELSE c
Lower(s) == [i \in 1..Len(s) |-> LowerChar(s[i])]
Upper(s) == [i \in 1..Len(s) |-> UpperChar(s[i])]

\* The characters of ' \t\n\r', the parser's whitespace.
Whitespace == {" ", "\t", "\n", "\r"}
\* str.strip() also removes the other ASCII whitespace (form feed here).
StripSpace == Whitespace \cup {"\f"}

\* s[a:b] of Python, for 0 <= a.
Slice(s, a, b) ==
    LET hi == IF b < Len(s) THEN b ELSE Len(s)
    IN  IF a >= hi THEN <<>> ELSE SubSeq(s, a + 1, hi)

RECURSIVE LStrip(_)
LStrip(s) ==
    IF s # <<>> /\ Head(s) \in StripSpace THEN LStrip(Tail(s)) ELSE s
RECURSIVE RStrip(_)
RStrip(s) ==
    IF s # <<>> /\ s[Len(s)] \in StripSpace
    THEN RStrip(SubSeq(s, 1, Len(s) - 1))
    ELSE s
Strip(s) == RStrip(LStrip(s))

\* sep.join(parts)
RECURSIVE Join(_, _)
Join(parts, sep) ==
    IF parts = <<>> THEN <<>>
    ELSE IF Len(parts) = 1 THEN parts[1]
    ELSE parts[1] \o sep \o Join(Tail(parts), sep)

\* needle in haystack, for two strings.
Contains(haystack, needle) ==
    \E i \in 0..(Len(haystack) - Len(needle)) :
        Slice(haystack, i, i + Len(needle)) = needle

EndsWith(s, suffix) ==
    /\ Len(suffix) <= Len(s)
    /\ Slice(s, Len(s) - Len(suffix), Len(s)) = suffix

(***************************************************************************)
(* The AST: Term, OrGroup, AndGroup.                                       *)
(***************************************************************************)
Term(property, value) ==
    [type |-> "Term", property |-> property, value |-> value]
OrGroup(terms) == [type |-> "OrGroup", terms |-> terms]
AndGroup(items) == [type |-> "AndGroup", items |-> items]

\* Term.__repr__
TermRepr(t) ==
    IF " " \in Range(t.value)
    THEN t.property \o <<":", "\"">> \o t.value \o <<"\"">>
    ELSE t.property \o <<":">> \o t.value

\* str(item) for a Term or an OrGroup (OrGroup.__repr__ recurses).
RECURSIVE ItemRepr(_)
ItemRepr(item) ==
    IF item.type = "Term" THEN TermRepr(item)
    ELSE <<"(">>
         \o Join([i \in 1..Len(item.terms) |-> ItemRepr(item.terms[i])],
                 <<" ", "O", "R", " ">>)
         \o <<")">>

\* AndGroup.__repr__
AndGroupRepr(ast) ==
    Join([i \in 1..Len(ast.items) |-> ItemRepr(ast.items[i])], <<" ">>)

query_to_string(ast) == AndGroupRepr(ast)

(***************************************************************************)
(* QueryParser: the cursor operations and the term parser.                 *)
(***************************************************************************)
s_title == <<"t","i","t","l","e">>
s_description == <<"d","e","s","c","r","i","p","t","i","o","n">>
s_attendees == <<"a","t","t","e","n","d","e","e","s">>
s_domain == <<"d","o","m","a","i","n">>
s_email == <<"e","m","a","i","l">>
s_response == <<"r","e","s","p","o","n","s","e">>
s_recurring == <<"r","e","c","u","r","r","i","n","g">>
s_is_all_day == <<"i","s","-","a","l","l","-","d","a","y">>
s_has_attendees == <<"h","a","s","-","a","t","t","e","n","d","e","e","s">>
s_transparency == <<"t","r","a","n","s","p","a","r","e","n","c","y">>
s_visibility == <<"v","i","s","i","b","i","l","i","t","y">>
s_day_of_week == <<"d","a","y","-","o","f","-","w","e","e","k">>
s_time_of_day == <<"t","i","m","e","-","o","f","-","d","a","y">>
s_color == <<"c","o","l","o","r">>
s_recurrence_id == <<"r","e","c","u","r","r","e","n","c","e","-","i","d">>

\* The keys of QueryParser.PROPERTIES.
PROPERTIES ==
    { s_title, s_description, s_attendees, s_domain, s_email, s_response,
      s_transparency, s_visibility, s_day_of_week, s_color, s_recurring,
      s_is_all_day, s_has_attendees, s_time_of_day, s_recurrence_id }

\* self._peek(n)
peek(q, p, n) == Slice(q, p, p + n)

RECURSIVE skip_whitespace(_, _)
skip_whitespace(q, p) ==
    IF p < Len(q) /\ q[p + 1] \in Whitespace
    THEN skip_whitespace(q, p + 1)
    ELSE p

\* Length of the match of [a-z][a-z0-9-]* (IGNORECASE) at q[p:], 0 for none.
RECURSIVE PropertyTail(_, _)
PropertyTail(q, p) ==
    IF p < Len(q) /\ (IsLetter(q[p + 1]) \/ IsDigit(q[p + 1]) \/ q[p + 1] = "-")
    THEN 1 + PropertyTail(q, p + 1)
    ELSE 0
PropertyMatch(q, p) ==
    IF p < Len(q) /\ IsLetter(q[p + 1]) THEN 1 + PropertyTail(q, p + 1) ELSE 0

\* Results of the value and term parsers: what was read, the cursor after
\* it, and the ParseError message when one is raised.
Parsed(kind, p, v, msg) == [kind |-> kind, pos |-> p, value |-> v, msg |-> msg]

RECURSIVE QuotedLoop(_, _, _)
QuotedLoop(q, p, result) ==
    IF p >= Len(q)
    THEN Parsed("Error", p, <<>>, "Unclosed quoted string")
    ELSE IF q[p + 1] = "\""
    THEN Parsed("Value", p + 1, result, "")
    ELSE IF q[p + 1] = "\\" /\ p + 1 < Len(q)
    THEN QuotedLoop(q, p + 2, Append(result, q[p + 2]))
    ELSE QuotedLoop(q, p + 1, Append(result, q[p + 1]))

\* _parse_quoted_string reading up to the next '"' whatever precedes it.
parse_quoted_string_no_escape(q, p) ==
    LET closes == { i \in (p + 2)..Len(q) : q[i] = "\"" }
        first_close == CHOOSE i \in closes : \A j \in closes : i <= j
    IN  IF closes = {}
        THEN Parsed("Error", Len(q), <<>>, "Unclosed quoted string")
        ELSE Parsed("Value", first_close, Slice(q, p + 1, first_close - 1), "")

\* _parse_quoted_string
parse_quoted_string(q, p) == QuotedLoop(q, p + 1, <<>>)

RECURSIVE UnquotedEnd(_, _)
UnquotedEnd(q, p) ==
    IF p < Len(q) /\ q[p + 1] \notin Whitespace \cup {"(", ")"}
    THEN UnquotedEnd(q, p + 1)
    ELSE p

parse_unquoted_string(q, p) ==
    LET e == UnquotedEnd(q, p)
    IN  IF e = p
        THEN Parsed("Error", p, <<>>, "Expected value")
        ELSE Parsed("Value", e, Slice(q, p, e), "")

\* _parse_value without the opening quote looked for.
parse_value_unquoted(q, p) == parse_unquoted_string(q, p)

\* _parse_value
parse_value(q, p) ==
    IF peek(q, p, 1) = <<"\"">>
    THEN parse_quoted_string(q, p)
    ELSE parse_unquoted_string(q, p)

\* _parse_term with the validation of the property enforced: a name that
\* is not a key of PROPERTIES raises.
parse_term_validating(q, p0) ==
    LET p == skip_whitespace(q, p0)
        n == PropertyMatch(q, p)
        prop == Lower(Slice(q, p, p + n))
        c == p + n
        v == parse_value(q, c + 1)
    IN  IF n = 0
        THEN Parsed("None", p, <<>>, "")
        ELSE IF c >= Len(q) \/ q[c + 1] # ":"
        THEN Parsed("Error", c, <<>>, "Expected ':'")
        ELSE IF v.kind = "Error"
        THEN v
        ELSE IF prop \notin PROPERTIES
        THEN Parsed("Error", v.pos, <<>>, "Unknown property")
        ELSE Parsed("Term", v.pos, Term(prop, v.value), "")

\* _parse_term: kind "None" when no property name can be read (the code
\* returns None), "Error" when it raises, "Term" with the term otherwise.
parse_term(q, p0) ==
    LET p == skip_whitespace(q, p0)
        n == PropertyMatch(q, p)
        prop == Lower(Slice(q, p, p + n))
        c == p + n
        v == parse_value(q, c + 1)
    IN  IF n = 0
        THEN Parsed("None", p, <<>>, "")
        ELSE IF c >= Len(q) \/ q[c + 1] # ":"
        THEN Parsed("Error", c, <<>>, "Expected ':'")
        ELSE IF v.kind = "Error"
        THEN v
        ELSE Parsed("Term", v.pos, Term(prop, v.value), "")

\* The test of the OR keyword for the upper-case spelling alone.
IsOrKeywordUpperCase(q, p) ==
    /\ peek(q, p, 2) = <<"O", "R">>
    /\ IF p + 2 >= Len(q) THEN TRUE ELSE q[p + 3] \in Whitespace \cup {")"}

\* The test of the OR keyword without the look at what follows it.
IsOrKeywordUnbounded(q, p) == Upper(peek(q, p, 2)) = <<"O", "R">>

\* The test of the OR keyword in _parse_group.
IsOrKeyword(q, p) ==
    /\ Upper(peek(q, p, 2)) = <<"O", "R">>
    /\ IF p + 2 >= Len(q) THEN TRUE ELSE q[p + 3] \in Whitespace \cup {")"}


(***************************************************************************)
(* Event values.  A key of the event dict is absent, or holds None, a str, *)
(* a bool, an int or a list; every value carries its Python type.          *)
(***************************************************************************)
Absent == [k |-> "absent"]
NoneV == [k |-> "None"]
StrV(s) == [k |-> "str", v |-> s]
BoolV(b) == [k |-> "bool", v |-> b]
IntV(n) == [k |-> "int", v |-> n]
ListV(items) == [k |-> "list", v |-> items]

\* dict.get(key, default)
Get(e, key, default) == IF e[key].k = "absent" THEN default ELSE e[key]

\* bool(x) is False
Falsy(x) ==
    \/ x.k = "None"
    \/ x.k = "str" /\ x.v = <<>>
    \/ x.k = "list" /\ x.v = <<>>
    \/ x.k = "bool" /\ x.v = FALSE
    \/ x.k = "int" /\ x.v = 0

\* x or default
OrElse(x, default) == IF Falsy(x) THEN default ELSE x

(***************************************************************************)
(* json.loads, for the texts an attendees column can hold: a JSON array   *)
(* of strings, null, true, false, an integer or a string; objects and     *)
(* fractions are not decoded by this model and no input contains them.    *)
(***************************************************************************)
JsonSpace == {" ", "\t", "\n", "\r"}

RECURSIVE JsonSkip(_, _)
JsonSkip(s, p) ==
    IF p < Len(s) /\ s[p + 1] \in JsonSpace THEN JsonSkip(s, p + 1) ELSE p

Json(ok, p, val) == [ok |-> ok, pos |-> p, val |-> val]
JsonError == Json(FALSE, 0, NoneV)

\* The characters of a JSON string from p, just after the opening quote.
\* A raw control character is rejected (strict mode).
RECURSIVE JsonStringLoop(_, _, _)
JsonStringLoop(s, p, acc) ==
    IF p >= Len(s) THEN JsonError
    ELSE IF s[p + 1] = "\"" THEN Json(TRUE, p + 1, StrV(acc))
    ELSE IF s[p + 1] \in {"\t", "\n", "\r", "\f"} THEN JsonError
    ELSE IF s[p + 1] = "\\"
    THEN IF p + 1 >= Len(s) THEN JsonError
         ELSE IF s[p + 2] \in {"\"", "\\", "/"}
         THEN JsonStringLoop(s, p + 2, Append(acc, s[p + 2]))
         ELSE IF s[p + 2] = "t" THEN JsonStringLoop(s, p + 2, Append(acc, "\t"))
         ELSE IF s[p + 2] = "n" THEN JsonStringLoop(s, p + 2, Append(acc, "\n"))
         ELSE IF s[p + 2] = "r" THEN JsonStringLoop(s, p + 2, Append(acc, "\r"))
         ELSE IF s[p + 2] = "f" THEN JsonStringLoop(s, p + 2, Append(acc, "\f"))
         ELSE JsonError
    ELSE JsonStringLoop(s, p + 1, Append(acc, s[p + 1]))

RECURSIVE JsonDigits(_, _)
JsonDigits(s, p) ==
    IF p < Len(s) /\ IsDigit(s[p + 1]) THEN JsonDigits(s, p + 1) ELSE p

DigitValue(c) == (CHOOSE i \in 1..10 : Digits[i] = c) - 1

RECURSIVE ToInt(_)
\* int() of a string of decimal digits.
ToInt(s) ==
    IF s = <<>> THEN 0
    ELSE 10 * ToInt(SubSeq(s, 1, Len(s) - 1)) + DigitValue(s[Len(s)])

RECURSIVE JsonValue(_, _)
RECURSIVE JsonItems(_, _, _)

\* After one item of an array: ']' ends it, ',' goes on to the next item.
JsonAfterItem(s, acc, item) ==
    IF ~item.ok THEN JsonError
    ELSE IF peek(s, JsonSkip(s, item.pos), 1) = <<"]">>
    THEN Json(TRUE, JsonSkip(s, item.pos) + 1, ListV(Append(acc, item.val)))
    ELSE IF peek(s, JsonSkip(s, item.pos), 1) = <<",">>
    THEN JsonItems(s, JsonSkip(s, JsonSkip(s, item.pos) + 1),
                   Append(acc, item.val))
    ELSE JsonError

\* One JSON value at p (whitespace before it already skipped).
JsonValue(s, p) ==
    IF p >= Len(s) THEN JsonError
    ELSE IF s[p + 1] = "\"" THEN JsonStringLoop(s, p + 1, <<>>)
    ELSE IF s[p + 1] = "["
    THEN IF peek(s, JsonSkip(s, p + 1), 1) = <<"]">>
         THEN Json(TRUE, JsonSkip(s, p + 1) + 1, ListV(<<>>))
         ELSE JsonItems(s, JsonSkip(s, p + 1), <<>>)
    ELSE IF peek(s, p, 4) = <<"n", "u", "l", "l">> THEN Json(TRUE, p + 4, NoneV)
    ELSE IF peek(s, p, 4) = <<"t", "r", "u", "e">> THEN Json(TRUE, p + 4, BoolV(TRUE))
    ELSE IF peek(s, p, 5) = <<"f", "a", "l", "s", "e">>
    THEN Json(TRUE, p + 5, BoolV(FALSE))
    ELSE IF IsDigit(s[p + 1])
    THEN LET e == JsonDigits(s, p)
         IN  IF s[p + 1] = "0" /\ e > p + 1
             THEN Json(TRUE, p + 1, IntV(0))
             ELSE Json(TRUE, e, IntV(ToInt(Slice(s, p, e))))
    ELSE JsonError

\* The items of an array from p, the first item's start.
JsonItems(s, p, acc) == JsonAfterItem(s, acc, JsonValue(s, p))

\* Nothing but whitespace may follow the value.
JsonWhole(s, v) ==
    IF v.ok /\ JsonSkip(s, v.pos) = Len(s) THEN v ELSE JsonError

\* json.loads(s): ok is FALSE where it raises JSONDecodeError.
JsonLoads(s) == JsonWhole(s, JsonValue(s, JsonSkip(s, 0)))

(***************************************************************************)
(* datetime.fromisoformat, for 'YYYY-MM-DD', 'YYYY-MM-DD*HH:MM' and        *)
(* 'YYYY-MM-DD*HH:MM:SS', each time optionally followed by an offset       *)
(* '+HH:MM' or '-HH:MM'; any other text is taken to raise ValueError.      *)
(***************************************************************************)
AllDigits(s) == \A i \in 1..Len(s) : IsDigit(s[i])

IsLeap(y) == (y % 4 = 0 /\ y % 100 # 0) \/ y % 400 = 0
DaysInMonth(y, m) ==
    IF m = 2 THEN (IF IsLeap(y) THEN 29 ELSE 28)
    ELSE IF m \in {4, 6, 9, 11} THEN 30 ELSE 31

\* date.weekday(): 0 is Monday.
Weekday(y, m, d) ==
    LET yy == IF m <= 2 THEN y - 1 ELSE y
        era == yy \div 400
        yoe == yy - era * 400
        mp == (m + 9) % 12
        doy == (153 * mp + 2) \div 5 + d - 1
        doe == yoe * 365 + yoe \div 4 - yoe \div 100 + doy
        days == era * 146097 + doe - 719468
    IN  (days + 3) % 7

IsoDateOk(s) ==
    /\ Len(s) >= 10
    /\ AllDigits(Slice(s, 0, 4)) /\ s[5] = "-"
    /\ AllDigits(Slice(s, 5, 7)) /\ s[8] = "-"
    /\ AllDigits(Slice(s, 8, 10))
    /\ LET y == ToInt(Slice(s, 0, 4))
           m == ToInt(Slice(s, 5, 7))
           d == ToInt(Slice(s, 8, 10))
       IN  y >= 1 /\ m \in 1..12 /\ d \in 1..DaysInMonth(y, m)

\* 'HH:MM' with both numbers in range.
IsoHourMinuteOk(s) ==
    /\ Len(s) = 5
    /\ AllDigits(Slice(s, 0, 2)) /\ s[3] = ":" /\ AllDigits(Slice(s, 3, 5))
    /\ ToInt(Slice(s, 0, 2)) <= 23 /\ ToInt(Slice(s, 3, 5)) <= 59

\* The time after the separator, without its offset.
IsoClockOk(s) ==
    \/ IsoHourMinuteOk(s)
    \/ /\ Len(s) = 8
       /\ IsoHourMinuteOk(Slice(s, 0, 5))
       /\ s[6] = ":" /\ AllDigits(Slice(s, 6, 8)) /\ ToInt(Slice(s, 6, 8)) <= 59

IsoOffsetOk(s) ==
    /\ Len(s) = 6
    /\ s[1] \in {"+", "-"}
    /\ IsoHourMinuteOk(Slice(s, 1, 6))

IsoTimeOk(s) ==
    \/ IsoClockOk(s)
    \/ /\ Len(s) > 6
       /\ IsoClockOk(Slice(s, 0, Len(s) - 6))
       /\ IsoOffsetOk(Slice(s, Len(s) - 6, Len(s)))

\* ok is FALSE where fromisoformat raises ValueError; otherwise the
\* weekday, hour and minute of the datetime, in the text's own offset.
fromisoformat(s) ==
    IF ~IsoDateOk(s) THEN [ok |-> FALSE, weekday |-> 0, hour |-> 0, minute |-> 0]
    ELSE LET wd == Weekday(ToInt(Slice(s, 0, 4)), ToInt(Slice(s, 5, 7)),
                           ToInt(Slice(s, 8, 10)))
         IN  IF Len(s) = 10
             THEN [ok |-> TRUE, weekday |-> wd, hour |-> 0, minute |-> 0]
             ELSE IF Len(s) >= 16 /\ IsoTimeOk(Slice(s, 11, Len(s)))
             THEN [ok |-> TRUE, weekday |-> wd,
                   hour |-> ToInt(Slice(s, 11, 13)),
                   minute |-> ToInt(Slice(s, 14, 16))]
             ELSE [ok |-> FALSE, weekday |-> 0, hour |-> 0, minute |-> 0]

\* text.replace(old, new), replacing from the left without overlap.
RECURSIVE Replace(_, _, _)
Replace(text, old, new) ==
    IF Len(text) < Len(old) \/ old = <<>> THEN text
    ELSE IF Slice(text, 0, Len(old)) = old
    THEN new \o Replace(Slice(text, Len(old), Len(text)), old, new)
    ELSE <<Head(text)>> \o Replace(Tail(text), old, new)

(***************************************************************************)
(* QueryEvaluator.  A term evaluates to "True" or "False", or to the name  *)
(* of the exception it raises.  The two caches of the instance are passed  *)
(* along as c and returned with the result.                                *)
(***************************************************************************)
Result(r, c) == [r |-> r, c |-> c]
B(b) == IF b THEN "True" ELSE "False"

\* The caches of a new QueryEvaluator.
NoCache == [attendees |-> NoneV, domains |-> NoneV]

\* _normalize_for_match: the '"' and "'" characters are removed; the
\* replace calls written after these two in the source find nothing once
\* they are gone.
normalize_for_match(text) ==
    Replace(Replace(text, <<"\"">>, <<>>), <<"'">>, <<>>)

\* json.dumps of a list of str, for the characters the inputs hold: '"',
\* the backslash and the control characters are escaped, the items are
\* separated by ", ".
JsonEscape(ch) ==
    CASE ch = "\"" -> <<"\\", "\"">>
      [] ch = "\\" -> <<"\\", "\\">>
      [] ch = "\t" -> <<"\\", "t">>
      [] ch = "\n" -> <<"\\", "n">>
      [] ch = "\r" -> <<"\\", "r">>
      [] OTHER -> <<ch>>
RECURSIVE JsonEscaped(_)
JsonEscaped(s) ==
    IF s = <<>> THEN <<>> ELSE JsonEscape(Head(s)) \o JsonEscaped(Tail(s))
json_dumps(items) ==
    <<"[">> \o Join([i \in 1..Len(items) |-> <<"\"">> \o JsonEscaped(items[i].v)
                                               \o <<"\"">>], <<",", " ">>)
        \o <<"]">>

\* The except branch taken whatever json.loads gives.
DecodeToEmpty(j) == ListV(<<>>)

\* try: json.loads(text) except JSONDecodeError: []
DecodeOrEmpty(j) == IF j.ok THEN j.val ELSE ListV(<<>>)

\* The attendees property on a miss of the cache: the value kept.
AttendeesOf(raw) ==
    OrElse(IF raw.k = "str" THEN DecodeOrEmpty(JsonLoads(raw.v)) ELSE raw,
           ListV(<<>>))

\* The value returned on a miss, with an empty list kept in the cache.
RememberedEmpty(c, val) ==
    [val |-> val, c |-> [c EXCEPT !.attendees = ListV(<<>>)]]

\* The value returned on a miss, and kept in the cache.
Remembered(c, val) == [val |-> val, c |-> [c EXCEPT !.attendees = val]]

\* The attendees property: the value and the caches after the access.
attendees(e, c) ==
    IF c.attendees.k # "None" THEN [val |-> c.attendees, c |-> c]
    ELSE Remembered(c, AttendeesOf(Get(e, "attendees", ListV(<<>>))))

\* What a for loop over x visits; a str is visited character by character.
Iterable(x) == x.k \in {"list", "str"}
Elements(x) ==
    IF x.k = "list" THEN x.v ELSE [i \in 1..Len(x.v) |-> StrV(<<x.v[i]>>)]

\* email.split('@')[1]
AfterAt(s) ==
    LET i == CHOOSE j \in 1..Len(s) :
                 s[j] = "@" /\ \A h \in 1..(j - 1) : s[h] # "@"
        rest == Slice(s, i, Len(s))
    IN  IF "@" \in Range(rest)
        THEN Slice(rest, 0, (CHOOSE j \in 1..Len(rest) :
                 rest[j] = "@" /\ \A h \in 1..(j - 1) : rest[h] # "@") - 1)
        ELSE rest

\* The set the loop of the domains property builds from the attendees.
DomainsOf(emails) ==
    { Lower(AfterAt(emails[i].v)) :
        i \in { j \in 1..Len(emails) :
                  emails[j].k = "str" /\ "@" \in Range(emails[j].v) } }

\* The loop raises TypeError on attendees that cannot be iterated and on a
\* member '@' cannot be looked for in.
DomainsFrom(a) ==
    IF ~Iterable(a.val)
    THEN [r |-> "TypeError", val |-> {}, c |-> a.c]
    ELSE IF \E i \in 1..Len(Elements(a.val)) :
                Elements(a.val)[i].k \notin {"str", "list"}
    THEN [r |-> "TypeError", val |-> {}, c |-> a.c]
    ELSE [r |-> "ok", val |-> DomainsOf(Elements(a.val)),
          c |-> [a.c EXCEPT !.domains =
                     [k |-> "set", v |-> DomainsOf(Elements(a.val))]]]

\* The domains property.
domains(e, c) ==
    IF c.domains.k # "None" THEN [r |-> "ok", val |-> c.domains.v, c |-> c]
    ELSE DomainsFrom(attendees(e, c))

\* _match_boolean
match_boolean(value, actual) ==
    IF value \in { <<"y","e","s">>, <<"t","r","u","e">>, <<"1">>, <<"o","n">> }
    THEN actual = BoolV(TRUE)
    ELSE IF value \in { <<"n","o">>, <<"f","a","l","s","e">>, <<"0">>,
                        <<"o","f","f">> }
    THEN actual = BoolV(FALSE)
    ELSE FALSE

\* DAY_NAMES.get(value): -1 for None.
DayNumber(value) ==
    CASE value \in { <<"m","o","n">>, <<"m","o","n","d","a","y">> } -> 0
      [] value \in { <<"t","u","e">>, <<"t","u","e","s","d","a","y">> } -> 1
      [] value \in { <<"w","e","d">>, <<"w","e","d","n","e","s","d","a","y">> } -> 2
      [] value \in { <<"t","h","u">>, <<"t","h","u","r","s","d","a","y">> } -> 3
      [] value \in { <<"f","r","i">>, <<"f","r","i","d","a","y">> } -> 4
      [] value \in { <<"s","a","t">>, <<"s","a","t","u","r","d","a","y">> } -> 5
      [] value \in { <<"s","u","n">>, <<"s","u","n","d","a","y">> } -> 6
      [] OTHER -> -1

\* The same match with the pattern ([<>])?(\d{1,2}):(\d{2}), which knows
\* no '=' after the operator.
TimeMatchWithoutEquals(value) ==
    LET a == IF peek(value, 0, 1) \in { <<"<">>, <<">">> } THEN 1 ELSE 0
        b == a
        op == IF b = 0 THEN <<"=">> ELSE Slice(value, 0, b)
        two == /\ Len(value) >= b + 5
               /\ AllDigits(Slice(value, b, b + 2))
               /\ value[b + 3] = ":"
               /\ AllDigits(Slice(value, b + 3, b + 5))
        one == /\ Len(value) >= b + 4
               /\ IsDigit(value[b + 1])
               /\ value[b + 2] = ":"
               /\ AllDigits(Slice(value, b + 2, b + 4))
    IN  IF two
        THEN [matched |-> TRUE, op |-> op,
              target |-> ToInt(Slice(value, b, b + 2)) * 60
                         + ToInt(Slice(value, b + 3, b + 5))]
        ELSE IF one
        THEN [matched |-> TRUE, op |-> op,
              target |-> ToInt(Slice(value, b, b + 1)) * 60
                         + ToInt(Slice(value, b + 2, b + 4))]
        ELSE [matched |-> FALSE, op |-> op, target |-> 0]

\* re.match(r'([<>]=?)?(\d{1,2}):(\d{2})', value): matched is FALSE for no
\* match, otherwise the operator ('=' when the group is empty) and the
\* target in minutes.
TimeMatch(value) ==
    LET a == IF peek(value, 0, 1) \in { <<"<">>, <<">">> } THEN 1 ELSE 0
        b == IF a = 1 /\ peek(value, 1, 1) = <<"=">> THEN 2 ELSE a
        op == IF b = 0 THEN <<"=">> ELSE Slice(value, 0, b)
        two == /\ Len(value) >= b + 5
               /\ AllDigits(Slice(value, b, b + 2))
               /\ value[b + 3] = ":"
               /\ AllDigits(Slice(value, b + 3, b + 5))
        one == /\ Len(value) >= b + 4
               /\ IsDigit(value[b + 1])
               /\ value[b + 2] = ":"
               /\ AllDigits(Slice(value, b + 2, b + 4))
    IN  IF two
        THEN [matched |-> TRUE, op |-> op,
              target |-> ToInt(Slice(value, b, b + 2)) * 60
                         + ToInt(Slice(value, b + 3, b + 5))]
        ELSE IF one
        THEN [matched |-> TRUE, op |-> op,
              target |-> ToInt(Slice(value, b, b + 1)) * 60
                         + ToInt(Slice(value, b + 2, b + 4))]
        ELSE [matched |-> FALSE, op |-> op, target |-> 0]

\* The same read with the empty text for a missing value, whatever the
\* default of the property.
LowerFieldNoDefault(e, key, default) ==
    LET x == OrElse(Get(e, key, NoneV), StrV(<<>>))
    IN  IF x.k = "str" THEN [r |-> "ok", v |-> Lower(x.v)]
        ELSE [r |-> "AttributeError", v |-> <<>>]

\* (event.get(key) or default).lower(), with the exception a value that
\* has no lower() raises.
LowerField(e, key, default) ==
    LET x == OrElse(Get(e, key, NoneV), StrV(default))
    IN  IF x.k = "str" THEN [r |-> "ok", v |-> Lower(x.v)]
        ELSE [r |-> "AttributeError", v |-> <<>>]

RECURSIVE IntText(_)
\* str(n) for n >= 0
IntText(n) == IF n < 10 THEN <<Digits[n + 1]>>
              ELSE IntText(n \div 10) \o <<Digits[(n % 10) + 1]>>

\* The first attendee, in order, that decides the attendees term.
RECURSIVE AttendeeContains(_, _, _)
AttendeeContains(emails, i, value) ==
    IF i > Len(emails) THEN "False"
    ELSE IF emails[i].k # "str" THEN "AttributeError"
    ELSE IF Contains(normalize_for_match(Lower(emails[i].v)), value) THEN "True"
    ELSE AttendeeContains(emails, i + 1, value)

\* The attendees, email and has-attendees terms, given the attendees.
AttendeesTerm(a, value) ==
    Result(IF ~Iterable(a.val) THEN "TypeError"
           ELSE AttendeeContains(Elements(a.val), 1, value), a.c)

EmailTerm(a, value) ==
    Result(IF ~Iterable(a.val) THEN "TypeError"
           ELSE IF \E i \in 1..Len(Elements(a.val)) : Elements(a.val)[i].k # "str"
           THEN "AttributeError"
           ELSE B(\E i \in 1..Len(Elements(a.val)) :
                      Lower(Elements(a.val)[i].v) = value), a.c)

HasAttendeesTerm(a, value) ==
    Result(IF ~Iterable(a.val) THEN "TypeError"
           ELSE B(match_boolean(value, BoolV(Len(a.val.v) > 0))), a.c)

\* The domain term matching a value that is part of a domain.
DomainTermContains(d, value) ==
    Result(IF d.r # "ok" THEN d.r
           ELSE B(\E x \in d.val : Contains(x, value)), d.c)

\* The domain term, given the domains.
DomainTerm(d, value) ==
    Result(IF d.r # "ok" THEN d.r ELSE B(value \in d.val), d.c)

\* _evaluate_term
evaluate_term(term, e, c) ==
    LET prop == term.property
        value == normalize_for_match(Lower(term.value))
    IN
    CASE prop = <<"t","i","t","l","e">> ->
           LET f == LowerField(e, "title", <<>>)
           IN  Result(IF f.r # "ok" THEN f.r
                      ELSE B(Contains(normalize_for_match(f.v), value)), c)
      [] prop = <<"d","e","s","c","r","i","p","t","i","o","n">> ->
           LET f == LowerField(e, "description", <<>>)
           IN  Result(IF f.r # "ok" THEN f.r
                      ELSE B(Contains(normalize_for_match(f.v), value)), c)
      [] prop = <<"a","t","t","e","n","d","e","e","s">> ->
           AttendeesTerm(attendees(e, c), value)
      [] prop = <<"d","o","m","a","i","n">> ->
           DomainTerm(domains(e, c), value)
      [] prop = <<"e","m","a","i","l">> ->
           EmailTerm(attendees(e, c), value)
      [] prop = <<"r","e","s","p","o","n","s","e">> ->
           LET f == LowerField(e, "my_response_status", <<>>)
               needsaction == <<"n","e","e","d","s","a","c","t","i","o","n">>
           IN  Result(IF f.r # "ok" THEN f.r
                      ELSE IF value \in { needsaction,
                                <<"n","e","e","d","s","-","a","c","t","i","o","n">>,
                                <<"n","e","e","d","s","_","a","c","t","i","o","n">>,
                                <<"p","e","n","d","i","n","g">> }
                      THEN B(f.v = needsaction)
                      ELSE B(f.v = value), c)
      [] prop = <<"r","e","c","u","r","r","i","n","g">> ->
           Result(B(match_boolean(value, Get(e, "is_recurring", BoolV(FALSE)))), c)
      [] prop = <<"i","s","-","a","l","l","-","d","a","y">> ->
           LET start == Get(e, "start_time", StrV(<<>>))
               end == Get(e, "end_time", StrV(<<>>))
               midnight == <<"T","0","0",":","0","0",":","0","0">>
           IN  Result(IF start.k # "str" THEN "TypeError"
                      ELSE IF ~Contains(start.v, midnight)
                      THEN B(match_boolean(value, BoolV(FALSE)))
                      ELSE IF end.k # "str" THEN "AttributeError"
                      ELSE B(match_boolean(value,
                                           BoolV(EndsWith(end.v, midnight)))), c)
      [] prop = <<"h","a","s","-","a","t","t","e","n","d","e","e","s">> ->
           HasAttendeesTerm(attendees(e, c), value)
      [] prop = <<"t","r","a","n","s","p","a","r","e","n","c","y">> ->
           LET f == LowerField(e, "transparency", <<"o","p","a","q","u","e">>)
           IN  Result(IF f.r # "ok" THEN f.r
                      ELSE IF value = <<"f","r","e","e">>
                      THEN B(f.v = <<"t","r","a","n","s","p","a","r","e","n","t">>)
                      ELSE IF value = <<"b","u","s","y">>
                      THEN B(f.v = <<"o","p","a","q","u","e">>)
                      ELSE B(f.v = value), c)
      [] prop = <<"v","i","s","i","b","i","l","i","t","y">> ->
           LET f == LowerField(e, "visibility", <<"d","e","f","a","u","l","t">>)
           IN  Result(IF f.r # "ok" THEN f.r ELSE B(f.v = value), c)
      [] prop = <<"d","a","y","-","o","f","-","w","e","e","k">> ->
           LET start == Get(e, "start_time", StrV(<<>>))
               dt == fromisoformat(Replace(start.v, <<"Z">>,
                                           <<"+","0","0",":","0","0">>))
           IN  Result(IF Falsy(start) THEN "False"
                      ELSE IF start.k # "str" THEN "AttributeError"
                      ELSE IF ~dt.ok THEN "False"
                      ELSE B(DayNumber(value) # -1 /\ dt.weekday = DayNumber(value)),
                      c)
      [] prop = <<"t","i","m","e","-","o","f","-","d","a","y">> ->
           LET start == Get(e, "start_time", StrV(<<>>))
               dt == fromisoformat(Replace(start.v, <<"Z">>,
                                           <<"+","0","0",":","0","0">>))
               event_time == dt.hour * 60 + dt.minute
               m == TimeMatch(value)
           IN  Result(IF Falsy(start) THEN "False"
                      ELSE IF start.k # "str" THEN "AttributeError"
                      ELSE IF ~dt.ok \/ ~m.matched THEN "False"
                      ELSE IF m.op = <<">">> THEN B(event_time > m.target)
                      ELSE IF m.op = <<">", "=">> THEN B(event_time >= m.target)
                      ELSE IF m.op = <<"<">> THEN B(event_time < m.target)
                      ELSE IF m.op = <<"<", "=">> THEN B(event_time <= m.target)
                      ELSE B(event_time = m.target), c)
      [] prop = <<"c","o","l","o","r">> ->
           LET x == OrElse(Get(e, "event_color", NoneV), StrV(<<>>))
           IN  Result(IF x.k = "str" THEN B(Lower(x.v) = value)
                      ELSE IF x.k = "int" /\ x.v >= 0 THEN B(IntText(x.v) = value)
                      ELSE IF x.k = "bool" THEN B(<<"t","r","u","e">> = value)
                      ELSE "False", c)
      [] prop = <<"r","e","c","u","r","r","e","n","c","e","-","i","d">> ->
           LET f == LowerField(e, "recurrence_id", <<>>)
           IN  Result(IF f.r # "ok" THEN f.r ELSE B(f.v = value), c)
      [] OTHER -> Result("False", c)

RECURSIVE evaluate_item(_, _, _)
RECURSIVE AnyFrom(_, _, _, _)
RECURSIVE AllFrom(_, _, _, _)

\* any(self._evaluate_item(t) for t in terms[i:]): the first member that
\* matches or raises decides, the members after it are not evaluated.
AnyFrom(terms, i, e, c) ==
    IF i > Len(terms) THEN Result("False", c)
    ELSE LET x == evaluate_item(terms[i], e, c)
         IN  IF x.r = "False" THEN AnyFrom(terms, i + 1, e, x.c) ELSE x

\* all(self._evaluate_item(item) for item in items[i:])
AllFrom(items, i, e, c) ==
    IF i > Len(items) THEN Result("True", c)
    ELSE LET x == evaluate_item(items[i], e, c)
         IN  IF x.r = "True" THEN AllFrom(items, i + 1, e, x.c) ELSE x

\* _evaluate_item
evaluate_item(item, e, c) ==
    IF item.type = "OrGroup" THEN AnyFrom(item.terms, 1, e, c)
    ELSE IF item.type = "Term" THEN evaluate_term(item, e, c)
    ELSE Result("False", c)

\* evaluate without its test for an empty item list: all() alone.
evaluate_all_only(a, e, c) == AllFrom(a.items, 1, e, c)

\* QueryEvaluator.evaluate
evaluate(a, e, c) ==
    IF a.items = <<>> THEN Result("False", c) ELSE AllFrom(a.items, 1, e, c)

(***************************************************************************)
(* Texts used to build input strings.                                      *)
(***************************************************************************)
s_Title == <<"T","i","t","l","e">>
s_bogus == <<"b","o","g","u","s">>
s_or == <<"o","r">>
s_OR == <<"O","R">>
s_ORx == <<"O","R","x">>
s_x == <<"x">>
s_X == <<"X">>
s_yes == <<"y","e","s">>
s_TRUE == <<"T","R","U","E">>
s_On == <<"O","n">>
s_off == <<"o","f","f">>
s_maybe == <<"m","a","y","b","e">>
s_quoted_yes == <<"'","y","e","s","'">>
s_no == <<"n","o">>
s_sync == <<"s","y","n","c">>
s_Weekly_Sync == <<"W","e","e","k","l","y"," ","S","y","n","c">>
s_needsAction == <<"n","e","e","d","s","A","c","t","i","o","n">>
s_bar == <<"b","a","r">>
s_acme == <<"a","c","m","e">>
s_acme_com == <<"a","c","m","e",".","c","o","m">>
s_cme_com == <<"c","m","e",".","c","o","m">>
s_a_acme_com == <<"a","@","a","c","m","e",".","c","o","m">>
s_A_Acme_com == <<"A","@","A","c","m","e",".","c","o","m">>
s_accepted == <<"a","c","c","e","p","t","e","d">>
s_pending == <<"p","e","n","d","i","n","g">>
s_busy == <<"b","u","s","y">>
s_free == <<"f","r","e","e">>
s_opaque == <<"o","p","a","q","u","e">>
s_transparent == <<"t","r","a","n","s","p","a","r","e","n","t">>
s_default == <<"d","e","f","a","u","l","t">>
s_private == <<"p","r","i","v","a","t","e">>
s_mon == <<"m","o","n">>
s_tue == <<"t","u","e">>
s_5 == <<"5">>
s_abc == <<"a","b","c">>
s_1430 == <<"1","4",":","3","0">>
s_gt1400 == <<">","1","4",":","0","0">>
s_lt2500 == <<"<","2","5",":","0","0">>
s_1430x == <<"1","4",":","3","0","x">>
s_14305 == <<"1","4",":","3","0","5">>
s_eq1430 == <<"=","1","4",":","3","0">>
\* Tuesday 2 January 2024, 14:30 UTC, and its end.
s_tuesday_1430 == <<"2","0","2","4","-","0","1","-","0","2","T","1","4",":","3","0",":","0","0","Z">>
s_tuesday_1500 == <<"2","0","2","4","-","0","1","-","0","2","T","1","5",":","0","0",":","0","0","Z">>
\* Midnight of Monday 1 January 2024 and of the day after.
s_monday_0000 == <<"2","0","2","4","-","0","1","-","0","1","T","0","0",":","0","0",":","0","0">>
s_tuesday_0000 == <<"2","0","2","4","-","0","1","-","0","2","T","0","0",":","0","0",":","0","0">>
s_garbage == <<"s","o","o","n">>
\* '["A@Acme.com"]' and a text json.loads rejects.
s_ge1430 == <<">","=","1","4",":","3","0">>
s_le1430 == <<"<","=","1","4",":","3","0">>
s_gt1430 == <<">","1","4",":","3","0">>
s_lt1431 == <<"<","1","4",":","3","1">>
s_ge1431 == <<">","=","1","4",":","3","1">>
s_le1429 == <<"<","=","1","4",":","2","9">>
s_0905 == <<"0","9",":","0","5">>
s_tuesday_0905_offset ==
    <<"2","0","2","4","-","0","1","-","0","2","T","0","9",":","0","5",":","0","0",
      "+","0","5",":","3","0">>
s_quoted_acme_com == <<"'","a","c","m","e",".","c","o","m","'">>
s_acme_co == <<"a","c","m","e",".","c","o">>
s_acme_com_au == <<"a","c","m","e",".","c","o","m",".","a","u">>
s_obrien_x_com == <<"o","'","b","r","i","e","n","@","x",".","c","o","m">>
s_OBrien_x_com == <<"O","'","B","r","i","e","n","@","x",".","c","o","m">>
s_curly_sync == <<"U+201C","s","y","n","c","U+201D">>
s_json_list == <<"[","\"">> \o s_A_Acme_com \o <<"\"","]">>
s_json_bad == <<"[","\"","a","@">>
s_quoted_address == <<"\"","a"," ","\\","b","\"","@","x",".","c","o","m">>

TermText(property, value) == property \o <<":">> \o value
Quoted(text) == <<"\"">> \o text \o <<"\"">>

\* Pieces written at top level: well-formed terms, the quoting cases, and
\* the malformations.
Atoms ==
    { TermText(s_title, s_x),                                  \* title:x
      TermText(s_Title, s_X),                                  \* Title:X
      TermText(s_bogus, s_x),                                  \* bogus:x
      TermText(s_or, s_x),                                     \* or:x
      TermText(s_ORx, s_x),                                    \* ORx:x
      TermText(s_title, Quoted(<<"x", " ", "y">>)),            \* title:"x y"
      TermText(s_title, Quoted(<<>>)),                         \* title:""
      TermText(s_title, Quoted(<<"x", "\t", "y">>)),           \* title:"x<tab>y"
      TermText(s_title, Quoted(<<"(", "x", ")">>)),            \* title:"(x)"
      TermText(s_title, Quoted(<<"a", "\\", "\"", "b">>)),     \* title:"a\"b"
      TermText(s_title, Quoted(<<"a", " ", "\\", "\"", "b">>)),\* title:"a \"b"
      TermText(s_title, Quoted(<<"x", "\\", "\\">>)),          \* title:"x\\"
      TermText(s_title, <<"\"", "x">>),                        \* title:"x
      TermText(s_title, <<"\"", "x", "\\", "\"">>),            \* title:"x\"
      TermText(s_title, <<>>),                                 \* title:
      s_title,                                                 \* title
      s_OR,                                                    \* OR
      <<"1">>, <<":", "x">>, <<"-", "x">>, <<"\"", "x", "\"">>, <<")">>,
      <<"(">>,
      <<"\t">> }

\* Members written inside a group.
Members ==
    { TermText(s_title, s_x),
      TermText(s_ORx, Quoted(<<"X", " ", "y">>)),
      TermText(s_or, s_x),
      s_OR,
      s_title,
      <<"1">>,
      <<"(", ")">>,
      <<"(">> \o TermText(s_title, s_x) \o <<")">> }

MemberSeparators == { <<" ">>, <<" ", "O", "R", " ">>, <<" ", "o", "r", "\t">> }

RECURSIVE SeqsUpTo(_, _)
\* The sequences of 0..n elements of S.
SeqsUpTo(S, n) ==
    IF n = 0 THEN { <<>> }
    ELSE LET shorter == SeqsUpTo(S, n - 1)
         IN  shorter \cup { Append(s, x) : s \in shorter, x \in S }

AtomQueries == { Join(s, <<" ">>) : s \in SeqsUpTo(Atoms, MaxItems) }

Groups ==
    { <<"(">> \o Join(s, sep) \o close :
        s \in SeqsUpTo(Members, MaxMembers),
        sep \in MemberSeparators,
        close \in { <<")">>, <<>> } }

GroupQueries ==
    { before \o g \o after :
        g \in Groups,
        before \in { <<>>, TermText(s_title, s_x) \o <<" ">> },
        after \in { <<>>, <<" ">> \o TermText(s_bogus, s_x) } }

\* Terms over the known properties, for the evaluator.
EvalTerms ==
    { TermText(s_title, s_sync),
      TermText(s_title, Quoted(<<"w","e","e","k","l","y"," ","s","y","n","c">>)),
      TermText(s_title, <<"'">>),
      TermText(s_description, s_bar),
      TermText(s_description, Quoted(<<>>)),
      TermText(s_attendees, s_acme),
      TermText(s_domain, s_acme_com),
      TermText(s_domain, s_cme_com),
      TermText(s_domain, s_acme_co),
      TermText(s_domain, s_acme_com_au),
      TermText(s_domain, s_quoted_acme_com),
      TermText(s_email, s_a_acme_com),
      TermText(s_email, s_obrien_x_com),
      TermText(s_title, s_curly_sync),
      TermText(s_response, s_accepted),
      TermText(s_response, s_pending),
      TermText(s_response, Quoted(<<>>)),
      TermText(s_recurring, s_yes),
      TermText(s_recurring, s_no),
      TermText(s_recurring, s_TRUE),
      TermText(s_recurring, s_off),
      TermText(s_recurring, s_maybe),
      TermText(s_recurring, s_quoted_yes),
      TermText(s_is_all_day, s_yes),
      TermText(s_is_all_day, s_no),
      TermText(s_is_all_day, <<"0">>),
      TermText(s_has_attendees, s_yes),
      TermText(s_has_attendees, s_On),
      TermText(s_has_attendees, s_no),
      TermText(s_has_attendees, s_x),
      TermText(s_transparency, s_busy),
      TermText(s_transparency, s_free),
      TermText(s_transparency, s_opaque),
      TermText(s_visibility, s_default),
      TermText(s_visibility, s_private),
      TermText(s_day_of_week, s_mon),
      TermText(s_day_of_week, s_tue),
      TermText(s_day_of_week, s_x),
      TermText(s_time_of_day, s_1430),
      TermText(s_time_of_day, s_gt1400),
      TermText(s_time_of_day, s_lt2500),
      TermText(s_time_of_day, s_1430x),
      TermText(s_time_of_day, s_14305),
      TermText(s_time_of_day, s_eq1430),
      TermText(s_time_of_day, s_ge1430),
      TermText(s_time_of_day, s_le1430),
      TermText(s_time_of_day, s_gt1430),
      TermText(s_time_of_day, s_lt1431),
      TermText(s_time_of_day, s_ge1431),
      TermText(s_time_of_day, s_le1429),
      TermText(s_time_of_day, s_0905),
      TermText(s_color, s_5),
      TermText(s_color, Quoted(<<>>)),
      TermText(s_recurrence_id, s_abc),
      TermText(s_recurrence_id, Quoted(<<>>)),
      TermText(s_bogus, s_sync),
      TermText(<<"t","i","t","l","e","s">>, s_sync) }

\* Terms combined two by two, as a conjunction and inside groups.
PairTerms ==
    { TermText(s_title, s_sync),
      TermText(s_title, s_x),
      TermText(s_is_all_day, s_yes),
      TermText(s_recurring, s_no),
      TermText(s_domain, s_acme_com) }

EvalQueries ==
    EvalTerms
    \cup { <<>>, <<"\t">>, <<" ", "\n">>, <<"(", ")">> }
    \cup { a \o <<" ">> \o b : a \in PairTerms, b \in PairTerms }
    \cup { <<"(">> \o a \o <<" ", "O", "R", " ">> \o b \o <<")">> :
             a \in PairTerms, b \in PairTerms }
    \cup { <<"(">> \o a \o <<" ", "O", "R", " ", "(">> \o b \o <<")", ")">> :
             a \in PairTerms, b \in PairTerms }

\* The example inputs of the external-interface section.
ExampleQueries ==
    { TermText(s_domain, s_acme_com) \o <<" ">>
        \o TermText(s_title, Quoted(<<"w","e","e","k","l","y"," ","s","y","n","c">>)),
      <<"(">> \o TermText(s_domain, <<"a",".","c","o","m">>)
        \o <<" ","O","R"," ">> \o TermText(s_domain, <<"b",".","c","o","m">>)
        \o <<")">>,
      TermText(s_response, <<"d","e","c","l","i","n","e","d">>)
        \o <<" ","O","R"," ">> \o TermText(s_transparency, s_free) }

\* A group with leading, repeated and trailing OR keywords.
RepeatedOrQuery ==
    <<"(","O","R"," ">> \o TermText(s_title, s_x) \o <<" ","O","R"," ","O","R"," ">>
        \o TermText(s_bogus, s_x) \o <<" ","O","R",")">>

\* The strings given to parse_query alone, and those given to
\* evaluate_query together with an event.
Inputs == AtomQueries \cup GroupQueries \cup ExampleQueries \cup {RepeatedOrQuery}
Evaluations == EvalQueries \cup ExampleQueries

(***************************************************************************)
(* The events queries are evaluated against: three events, and each of    *)
(* them with one key removed or set to another value of its column.       *)
(***************************************************************************)
Keys ==
    { "title", "description", "attendees", "my_response_status",
      "is_recurring", "transparency", "visibility", "event_color",
      "recurrence_id", "start_time", "end_time" }

ColumnValues(key) ==
    CASE key = "title" -> { StrV(<<>>), StrV(s_Weekly_Sync) }
      [] key = "description" -> { StrV(s_bar) }
      [] key = "attendees" ->
           { ListV(<<>>), ListV(<<StrV(s_A_Acme_com)>>),
             ListV(<<StrV(s_OBrien_x_com), StrV(s_quoted_address),
                     StrV(s_a_acme_com)>>),
             ListV(<<StrV(s_acme_com)>>),
             StrV(s_json_list), StrV(s_json_bad) }
      [] key = "my_response_status" -> { StrV(s_accepted), StrV(s_needsAction) }
      [] key = "is_recurring" -> { BoolV(TRUE), BoolV(FALSE) }
      [] key = "transparency" -> { StrV(s_opaque), StrV(s_transparent) }
      [] key = "visibility" -> { StrV(s_default), StrV(s_private) }
      [] key = "event_color" -> { StrV(s_5) }
      [] key = "recurrence_id" -> { StrV(s_abc) }
      [] key = "start_time" ->
           { StrV(<<>>), StrV(s_garbage), StrV(s_tuesday_1430),
             StrV(s_monday_0000), StrV(s_tuesday_0905_offset) }
      [] key = "end_time" -> { StrV(s_tuesday_1500), StrV(s_tuesday_0000) }

FieldValues(key) == { Absent, NoneV } \cup ColumnValues(key)

\* A timed meeting with every key set.
MeetingEvent ==
    [ title |-> StrV(s_Weekly_Sync),
      description |-> StrV(s_bar),
      attendees |-> ListV(<<StrV(s_A_Acme_com)>>),
      my_response_status |-> StrV(s_accepted),
      is_recurring |-> BoolV(TRUE),
      transparency |-> StrV(s_transparent),
      visibility |-> StrV(s_private),
      event_color |-> StrV(s_5),
      recurrence_id |-> StrV(s_abc),
      start_time |-> StrV(s_tuesday_1430),
      end_time |-> StrV(s_tuesday_1500) ]

\* An all-day event without attendees, as the calendar sync stores it.
AllDayEvent ==
    [ title |-> StrV(s_Weekly_Sync),
      description |-> StrV(<<>>),
      attendees |-> StrV(<<"[", "]">>),
      my_response_status |-> NoneV,
      is_recurring |-> BoolV(FALSE),
      transparency |-> NoneV,
      visibility |-> NoneV,
      event_color |-> NoneV,
      recurrence_id |-> NoneV,
      start_time |-> StrV(s_monday_0000),
      end_time |-> StrV(s_tuesday_0000) ]

\* An event dict without any of the keys.
EmptyEvent == [ key \in Keys |-> Absent ]

Events ==
    UNION { { [base EXCEPT ![key] = v] : v \in FieldValues(key) } :
              base \in { MeetingEvent, AllDayEvent, EmptyEvent }, key \in Keys }

(***************************************************************************)
(* The rules the loops try.  A row of classification_rules carries the     *)
(* query the calendar sync and the apply-rules endpoint evaluate, and the  *)
(* conditions RuleMatcher evaluates.                                       *)
(***************************************************************************)
RuleCondition(property_name, condition_type, condition_value) ==
    [ property_name |-> property_name, condition_type |-> condition_type,
      condition_value |-> condition_value ]

\* What a rule matches by: title:sync and "title contains sync"; a query
\* that reads the times of the event and a condition of an unknown type;
\* a query that does not parse and no condition.
SyncContents ==
    [ query |-> TermText(s_title, s_sync),
      conditions |-> <<RuleCondition("title", "contains", s_sync)>> ]
RuleContents ==
    { SyncContents,
      [ query |-> TermText(s_is_all_day, s_yes),
        conditions |-> <<RuleCondition("title", "sounds_like", s_sync)>> ],
      [ query |-> s_title, conditions |-> <<>> ] }

\* A row of classification_rules: what the rule matches by, and its target,
\* a project (target_type "project" and the id of the project) or the
\* did_not_attend flag of the event.
Rule(id, priority, is_enabled, contents, target_type, project_id) ==
    [ id |-> id, priority |-> priority, is_enabled |-> is_enabled,
      query |-> contents.query, conditions |-> contents.conditions,
      target_type |-> target_type, project_id |-> project_id ]

RuleRows(id) ==
    { Rule(id, p, b, c, "project", IntV(1)) :
        p \in {0, 1}, b \in BOOLEAN, c \in RuleContents }

Tables ==
    UNION { { s \in [1..n -> UNION { RuleRows(i) : i \in 1..n }] :
                \A i \in 1..n : s[i].id = i } : n \in 1..MaxRules }

\* parse_query on the query of a stored rule: the AST, or None for a query
\* that is empty or raises ParseError.
ParsedQuery(text) ==
    CASE text = TermText(s_title, s_sync) -> AndGroup(<<Term(s_title, s_sync)>>)
      [] text = TermText(s_is_all_day, s_yes) ->
           AndGroup(<<Term(s_is_all_day, s_yes)>>)
      [] text = TermText(s_domain, s_acme_com) ->
           AndGroup(<<Term(s_domain, s_acme_com)>>)
      [] OTHER -> NoneV

\* A row of projects: the lists of its fingerprint, as parse_jsonb returns
\* them for a JSONB column.  The id of a project is its place in the table.
Project(ds, es, ks) ==
    [ fingerprint_domains |-> ds, fingerprint_emails |-> es,
      fingerprint_keywords |-> ks ]

\* _build_fingerprint_query and _build_fingerprint_query_for_apply: one
\* part for each pattern, a keyword with a space in it between quotes; a
\* single part alone, several joined with OR in a group.
KeywordPart(k) ==
    IF Contains(k, <<" ">>)
    THEN s_title \o <<":", "\"">> \o k \o <<"\"">>
    ELSE s_title \o <<":">> \o k
build_fingerprint_query(ds, es, ks) ==
    LET parts ==
            [i \in 1..Len(ds) |-> s_domain \o <<":">> \o ds[i]]
            \o [i \in 1..Len(es) |-> s_email \o <<":">> \o es[i]]
            \o [i \in 1..Len(ks) |-> KeywordPart(ks[i])]
    IN  IF parts = <<>> THEN <<>>
        ELSE IF Len(parts) = 1 THEN parts[1]
        ELSE <<"(">> \o Join(parts, <<" ", "O", "R", " ">>) \o <<")">>

\* The projects of a user: none; one without a fingerprint and one whose
\* fingerprint is the domain acme.com; one whose keyword is empty before
\* the acme.com one; one with a domain and a keyword; one whose keyword
\* ends with a parenthesis.
NoProjects == <<>>
AcmeProject == Project(<<s_acme_com>>, <<>>, <<>>)
AcmeProjects == <<Project(<<>>, <<>>, <<>>), AcmeProject>>
EmptyKeywordProjects == <<Project(<<>>, <<>>, << <<>> >>), AcmeProject>>
TwoPatternProjects == <<Project(<<s_acme_com>>, <<>>, <<s_sync>>)>>
ParenthesisProjects == <<Project(<<>>, <<>>, << <<"x", ")">> >>), AcmeProject>>

\* The row create_classification_rule inserts for a request that gives
\* neither a priority nor is_enabled.
StoredRule(id, text) ==
    [ id |-> id, priority |-> 0, is_enabled |-> TRUE, query |-> text,
      conditions |-> <<>> ]

\* The bodies of the requests.  A request to create names the project the
\* rule is for, one to update the rule it changes.
CreateRequest(text, target_type, project) ==
    [ endpoint |-> "create", query |-> text, target_type |-> target_type,
      project |-> project, rule_id |-> 0, is_enabled |-> Absent ]
UpdateRequest(rule_id, text, is_enabled) ==
    [ endpoint |-> "update", query |-> text, target_type |-> "project",
      project |-> "known", rule_id |-> rule_id, is_enabled |-> is_enabled ]

RequestQueries ==
    { Absent, NoneV, StrV(<<>>), StrV(<<" ">>),
      StrV(<<" ">> \o TermText(s_is_all_day, s_yes) \o <<"\n">>),
      StrV(s_title), StrV(<<"(">> \o TermText(s_title, s_sync)),
      StrV(<<":", "x">>) }

Requests ==
    { CreateRequest(q, "project", "known") : q \in RequestQueries }
    \cup { CreateRequest(StrV(TermText(s_title, s_sync)), "bogus", "known"),
           CreateRequest(StrV(TermText(s_title, s_sync)), "project", "absent"),
           CreateRequest(StrV(TermText(s_title, s_sync)), "project", "unknown"),
           CreateRequest(StrV(TermText(s_title, s_sync)), "did_not_attend", "absent") }
    \cup { UpdateRequest(1, q, e) :
             q \in { Absent, StrV(<<" ">>), StrV(s_title),
                      StrV(TermText(s_is_all_day, s_yes) \o <<" ">>) },
             e \in { Absent, BoolV(FALSE) } }
    \cup { UpdateRequest(MaxRequests + 2, StrV(<<>>), Absent) }

\* The events the loops run on: the meeting, and the meeting with a null
\* start.
LoopEvents == { MeetingEvent, [MeetingEvent EXCEPT !.start_time = NoneV] }

\* An event of the calendar: its data, whether the events table has a row
\* for it, and the did_not_attend flag of that row.  The id of an event is
\* its place in the calendar.
EventRow(data, stored, did_not_attend) ==
    [ data |-> data, stored |-> stored, did_not_attend |-> did_not_attend ]

\* A row of time_entries.
TimeEntry(event_id, project_id, classification_source, rule_id) ==
    [ event_id |-> event_id, project_id |-> project_id,
      classification_source |-> classification_source, rule_id |-> rule_id ]

\* An event that no rule here matches.
QuietEvent == [AllDayEvent EXCEPT !.title = StrV(s_x), !.attendees = ListV(<<>>)]

\* The events and the time entries of a user: the meeting, already synced
\* and without a time entry; the meeting with a time entry the user made;
\* the meeting not yet synced; the meeting already marked did_not_attend,
\* followed by a quiet event and the meeting once more.
Unclassified ==
    [ events |-> <<EventRow(MeetingEvent, TRUE, FALSE)>>, time_entries |-> <<>> ]
Classified ==
    [ events |-> <<EventRow(MeetingEvent, TRUE, FALSE)>>,
      time_entries |-> <<TimeEntry(1, IntV(2), "manual", NoneV)>> ]
Unsynced ==
    [ events |-> <<EventRow(MeetingEvent, FALSE, FALSE)>>, time_entries |-> <<>> ]
Marked ==
    [ events |-> <<EventRow(MeetingEvent, TRUE, TRUE),
                   EventRow(QuietEvent, TRUE, FALSE),
                   EventRow(MeetingEvent, FALSE, FALSE)>>,
      time_entries |-> <<>> ]

\* The rules of a user in the runs over several events: a rule for
\* project 1, a did_not_attend rule, a project rule whose project is null,
\* all three on title:sync; no rule; a rule whose query does not parse,
\* before one on title:sync.
ProjectRules == <<Rule(1, 0, TRUE, SyncContents, "project", IntV(1))>>
DidNotAttendRules == <<Rule(1, 0, TRUE, SyncContents, "did_not_attend", NoneV)>>
NullProjectRules == <<Rule(1, 0, TRUE, SyncContents, "project", NoneV)>>
NoRules == <<>>
UnparsableRules ==
    <<Rule(1, 1, TRUE, [query |-> s_title, conditions |-> <<>>], "project", IntV(2)),
      Rule(2, 0, TRUE, SyncContents, "project", IntV(1))>>

\* The state of the database at the start: of the rules, the projects, the
\* events and the time entries.
Database(table, projects, db) ==
    [ table |-> table, projects |-> projects, events |-> db.events,
      time_entries |-> db.time_entries ]
Databases ==
    { Database(t, AcmeProjects, d) :
        t \in {ProjectRules, DidNotAttendRules, NullProjectRules},
        d \in {Unclassified, Classified, Marked} }
    \cup { Database(t, p, d) :
             t \in {NoRules, UnparsableRules},
             p \in {NoProjects, EmptyKeywordProjects, TwoPatternProjects,
                     ParenthesisProjects},
             d \in {Unclassified, Unsynced} }

\* A run: the calendar sync, or the apply-rules endpoint with dry_run true
\* or false.  The runs come one after the other.
RunKinds ==
    { [caller |-> "sync_calendar_events", dry_run |-> FALSE],
      [caller |-> "apply_rules", dry_run |-> TRUE],
      [caller |-> "apply_rules", dry_run |-> FALSE] }
Schedules == SeqsUpTo(RunKinds, MaxRuns) \ { <<>> }

(***************************************************************************)
(* State.                                                                  *)
(***************************************************************************)
VARIABLES
    input,     \* the string given to parse_query
    query,     \* QueryParser.query, the stripped string
    pos,       \* QueryParser.pos
    stack,     \* the item lists under construction: stack[1] is parse()'s
               \* items, each further one the terms of an open _parse_group
    status,    \* "idle", "parsing", "done" or "ParseError"
    error,     \* the message of the ParseError raised
    ast,       \* the AndGroup parse_query returned
    spins,     \* loop iterations that left the cursor where it was (0 for
               \* none, then counted round 1..MaxSpins)
    pass,      \* 1 for the given string, 2 for the re-parse of its rendering
    first,     \* the AndGroup of pass 1, kept for the comparison in pass 2
    event,     \* the event given to evaluate_query, which becomes
               \* QueryEvaluator.event; None in a call of parse_query alone
    cache,     \* QueryEvaluator._attendees_cache and ._domains_cache
    result,    \* what evaluate returned or raised, "none" before the call
    asked,     \* the AST given to the latest call of evaluate
    again,     \* what the latest further call of evaluate on the same
               \* QueryEvaluator returned or raised, "none" before it
    calls,     \* the calls of evaluate made on the QueryEvaluator
    caller,    \* the entry point of the run: parse_query, evaluate_query,
               \* or one of the loops that apply rules to an event
    table,     \* the rows of classification_rules; a row's id is its index
    fingerprint_matchers, \* the parsed fingerprint queries of the projects
    rules,     \* parsed_rules, or RuleMatcher.rules: the rows in the order
               \* the loop tries them
    idx,       \* the place in the list of the loop's next iteration
    matching_rule, \* None, or the rule or fingerprint matcher that matched
    phase,     \* "none" outside the loops; "start", then the loop that is
               \* running ("projects" and in it "fingerprint" while
               \* parse_query runs, "events" and in it "rules",
               \* "fingerprints" and "end"), then "returned" or "raised"
    request,   \* the create-rule or update-rule request being handled
    response,  \* "none" before the handler runs, "validating" while
               \* parse_query runs on the query of the request, then the
               \* status code of the answer or the exception raised
    requests,  \* the requests received
    results,   \* what RuleMatcher.match_all returned: for each rule in
               \* order its id and its matched flag; None before the call
    projects,  \* the rows of projects
    events,    \* the events of the calendar and their rows in events
    time_entries, \* the rows of time_entries
    dry_run,   \* dry_run of the request to the apply-rules endpoint
    batch,     \* the ids of the events the run loops over
    at,        \* the place in batch of the event of the current iteration
    events_new, \* the counter of the calendar sync
    classified, \* the events the run has inserted a time entry for (their
               \* number is events_classified in the calendar sync)
    attendance_updated, \* the events the run has marked did_not_attend
    matched,   \* the matches a dry run has found
    returned,  \* the dict the run returned, None before
    previous,  \* the run before this one: its kind and what it returned
    schedule   \* the runs that follow this one

parser == <<input, query, pos, stack, status, error, ast, spins, pass, first>>
evaluator == <<event, cache, result, asked, again, calls>>
database == <<projects, events, time_entries>>
run ==
    <<dry_run, batch, at, events_new, classified, attendance_updated, matched,
      returned, previous, schedule>>
store == <<results, database, run>>
engine ==
    <<caller, table, fingerprint_matchers, rules, idx, matching_rule, phase,
      request, response, requests, store>>
loops == <<fingerprint_matchers, rules, idx, matching_rule, phase, store>>
vars == <<parser, evaluator, engine>>

NoAst == [type |-> "None"]

\* The state of the loops and of the requests in a run that has none.
NoDatabase == projects = <<>> /\ events = <<>> /\ time_entries = <<>>
NoSchedule == dry_run = FALSE /\ schedule = <<>>
NoLoop == phase = "none" /\ NoDatabase /\ NoSchedule
BatchCallers == {"sync_calendar_events", "apply_rules"}
NoRequest == request = NoneV /\ response = "none" /\ requests = 0

Init ==
    /\ \/ input \in Inputs /\ event = NoneV /\ caller = "parse_query"
             /\ table = <<>> /\ NoLoop /\ NoRequest
       \/ input \in Evaluations /\ event \in Events
             /\ caller = "evaluate_query" /\ table = <<>> /\ NoLoop /\ NoRequest
       \/ /\ input = <<>>
          /\ event \in LoopEvents
          /\ caller = "RuleMatcher"
          /\ table \in Tables
          /\ phase = "start"
          /\ NoDatabase /\ NoSchedule
          /\ NoRequest
       \/ /\ input = <<>>
          /\ event = NoneV
          /\ caller \in {"sync_calendar_events", "apply_rules"}
          /\ table \in Tables
          /\ projects = NoProjects
          /\ \E e \in LoopEvents : events = <<EventRow(e, TRUE, FALSE)>>
          /\ time_entries = <<>>
          /\ phase = "start"
          /\ NoSchedule
          /\ NoRequest
       \/ /\ input = <<>>
          /\ event = NoneV
          /\ \E d \in Databases :
                /\ table = d.table
                /\ projects = d.projects
                /\ events = d.events
                /\ time_entries = d.time_entries
          /\ \E s \in Schedules :
                /\ caller = s[1].caller
                /\ dry_run = s[1].dry_run
                /\ schedule = Tail(s)
          /\ phase = "start"
          /\ NoRequest
       \/ /\ input = <<>>
          /\ event = NoneV
          /\ caller = "rule_requests"
          /\ table \in { <<>>, <<StoredRule(1, TermText(s_title, s_sync))>> }
          /\ NoLoop
          /\ request \in Requests
          /\ response = "none"
          /\ requests = 1
    /\ fingerprint_matchers = <<>>
    /\ rules = <<>>
    /\ idx = 0
    /\ matching_rule = NoneV
    /\ results = NoneV
    /\ batch = <<>>
    /\ at = 0
    /\ events_new = 0
    /\ classified = <<>>
    /\ attendance_updated = <<>>
    /\ matched = <<>>
    /\ returned = NoneV
    /\ previous = NoneV
    /\ query = <<>>
    /\ pos = 0
    /\ stack = <<>>
    /\ status = "idle"
    /\ error = ""
    /\ ast = NoAst
    /\ spins = 0
    /\ pass = 1
    /\ first = NoAst
    /\ cache = NoCache
    /\ result = "none"
    /\ asked = NoAst
    /\ again = "none"
    /\ calls = 0

(***************************************************************************)
(* parse_query and QueryParser.parse, one loop iteration per step.         *)
(***************************************************************************)
parse_query ==
    /\ \/ caller \in {"parse_query", "evaluate_query"}
       \/ caller = "rule_requests" /\ response = "validating"
       \/ caller \in BatchCallers /\ phase = "fingerprint"
    /\ status = "idle"
    /\ IF input = <<>> \/ Strip(input) = <<>>
       THEN /\ status' = "done"
            /\ ast' = AndGroup(<<>>)
            /\ UNCHANGED <<query, pos, stack>>
       ELSE /\ query' = Strip(input)
            /\ pos' = 0
            /\ stack' = << <<>> >>
            /\ status' = "parsing"
            /\ UNCHANGED ast
    /\ UNCHANGED <<input, error, spins, pass, first, evaluator, engine>>

InTopLoop == status = "parsing" /\ Len(stack) = 1
InGroupLoop == status = "parsing" /\ Len(stack) > 1

Bump(n) == IF n < MaxSpins THEN n + 1 ELSE 1

\* What the caller of _parse_term does with its outcome: the exception
\* propagates, None is dropped, a Term is appended to the list being built.
TakeTerm(r) ==
    /\ pos' = r.pos
    /\ status' = IF r.kind = "Error" THEN "ParseError" ELSE status
    /\ error' = IF r.kind = "Error" THEN r.msg ELSE error
    /\ stack' = IF r.kind = "Term"
                THEN [stack EXCEPT ![Len(stack)] = Append(@, r.value)]
                ELSE stack
    /\ spins' = IF r.kind = "None" /\ r.pos = pos THEN Bump(spins) ELSE spins
    /\ UNCHANGED <<input, query, ast, pass, first, evaluator, engine>>

\* _parse_group up to its loop: consume '(' and the whitespace after it.
EnterGroup(p) ==
    /\ pos' = skip_whitespace(query, p + 1)
    /\ stack' = Append(stack, <<>>)
    /\ UNCHANGED <<input, query, status, error, ast, spins, pass, first, evaluator, engine>>

\* parse(): the loop ends (its condition fails, or the break after the
\* whitespace) and the AndGroup is returned.
ParseReturn ==
    /\ InTopLoop
    /\ skip_whitespace(query, pos) >= Len(query)
    /\ pos' = skip_whitespace(query, pos)
    /\ status' = "done"
    /\ ast' = AndGroup(stack[1])
    /\ UNCHANGED <<input, query, stack, error, spins, pass, first, evaluator, engine>>

\* parse(): an iteration that finds '('.
TopGroup ==
    /\ InTopLoop
    /\ LET p == skip_whitespace(query, pos)
       IN  /\ p < Len(query)
           /\ query[p + 1] = "("
           /\ EnterGroup(p)

\* parse(): an iteration that calls _parse_term.
TopTerm ==
    /\ InTopLoop
    /\ LET p == skip_whitespace(query, pos)
       IN  /\ p < Len(query)
           /\ query[p + 1] # "("
           /\ TakeTerm(parse_term(query, p))

GroupLoopRuns == pos < Len(query) /\ query[pos + 1] # ")"

\* _parse_group: an iteration that finds a nested '('.
GroupNested ==
    /\ InGroupLoop
    /\ GroupLoopRuns
    /\ LET p == skip_whitespace(query, pos)
       IN  /\ peek(query, p, 1) = <<"(">>
           /\ EnterGroup(p)

\* _parse_group: an iteration that consumes the OR keyword and continues.
GroupOr ==
    /\ InGroupLoop
    /\ GroupLoopRuns
    /\ LET p == skip_whitespace(query, pos)
       IN  /\ peek(query, p, 1) # <<"(">>
           /\ IsOrKeyword(query, p)
           /\ pos' = skip_whitespace(query, p + 2)
    /\ UNCHANGED <<input, query, stack, status, error, ast, spins, pass, first, evaluator, engine>>

\* _parse_group: an iteration that calls _parse_term.
GroupTerm ==
    /\ InGroupLoop
    /\ GroupLoopRuns
    /\ LET p == skip_whitespace(query, pos)
       IN  /\ peek(query, p, 1) # <<"(">>
           /\ ~IsOrKeyword(query, p)
           /\ TakeTerm(parse_term(query, p))

\* _parse_group: the loop ended on ')': consume it and return the OrGroup
\* to the caller, which appends it to its own list.
GroupClose ==
    /\ InGroupLoop
    /\ pos < Len(query)
    /\ query[pos + 1] = ")"
    /\ pos' = pos + 1
    /\ stack' = LET n == Len(stack)
                IN  [SubSeq(stack, 1, n - 1) EXCEPT
                        ![n - 1] = Append(@, OrGroup(stack[n]))]
    /\ UNCHANGED <<input, query, status, error, ast, spins, pass, first, evaluator, engine>>

\* _parse_group: the loop ended at the end of the input.
GroupUnclosed ==
    /\ InGroupLoop
    /\ pos >= Len(query)
    /\ status' = "ParseError"
    /\ error' = "Unclosed parenthesis"
    /\ UNCHANGED <<input, query, pos, stack, ast, spins, pass, first, evaluator, engine>>

\* query_to_string of the AST parse_query returned, handed to parse_query
\* again.
Render ==
    /\ caller = "parse_query"
    /\ status = "done"
    /\ pass = 1
    /\ event = NoneV
    /\ input' = query_to_string(ast)
    /\ first' = ast
    /\ pass' = 2
    /\ status' = "idle"
    /\ query' = <<>>
    /\ pos' = 0
    /\ stack' = <<>>
    /\ ast' = NoAst
    /\ UNCHANGED <<error, spins, evaluator, engine>>

\* evaluate_query's last two lines: a new QueryEvaluator for an event,
\* and evaluate on the parsed AST.
evaluate_query ==
    /\ status = "done"
    /\ event # NoneV
    /\ result = "none"
    /\ \E x \in {evaluate(ast, event, NoCache)} :
          /\ cache' = x.c
          /\ result' = x.r
    /\ asked' = ast
    /\ calls' = 1
    /\ UNCHANGED <<engine, parser, event, again>>

\* Another query, which reads the attendees and the domains of the event,
\* parsed.
OtherAsts == { AndGroup(<<Term(s_domain, s_acme_com)>>) }

\* A further call of evaluate on the same QueryEvaluator, with the AST of
\* the first call or with another one: the caches are those the earlier
\* calls left.
evaluate_again ==
    /\ calls \in 1..(MaxCalls - 1)
    /\ \E a \in {ast} \cup OtherAsts :
          \E x \in {evaluate(a, event, cache)} :
              /\ cache' = x.c
              /\ again' = x.r
              /\ asked' = a
    /\ calls' = calls + 1
    /\ UNCHANGED <<engine, parser, event, result>>

(***************************************************************************)
(* The loops that apply rules to an event.                                 *)
(***************************************************************************)
\* ORDER BY priority ASC, display_order.
BeforeAscending(a, b) ==
    \/ a.priority < b.priority
    \/ a.priority = b.priority /\ a.id < b.id

\* ORDER BY priority DESC, display_order, and the key (-priority, id) of
\* sorted: a row's place in the display is its id.
Before(a, b) ==
    \/ a.priority > b.priority
    \/ a.priority = b.priority /\ a.id < b.id

\* The rows in that order.
Ordered(rows) ==
    CHOOSE s \in [1..Cardinality(rows) -> rows] :
        \A i, j \in 1..Cardinality(rows) : i < j => Before(s[i], s[j])

Loaded(row) ==
    [ id |-> row.id, priority |-> row.priority, is_enabled |-> row.is_enabled,
      query |-> row.query, conditions |-> row.conditions,
      target_type |-> row.target_type, project_id |-> row.project_id,
      parsed_query |-> ParsedQuery(row.query) ]
WithParsed(s) == [i \in 1..Len(s) |-> Loaded(s[i])]

\* The ids of the events of a list.
Ids(rows) == [i \in 1..Len(rows) |-> i]

\* The SELECT of apply_rules_to_events: the rows of events without a time
\* entry, and those whose did_not_attend is FALSE.  Rows of equal
\* start_time come in the order of their ids.
Selected(rows, entries) ==
    SelectSeq(Ids(rows),
              LAMBDA i : /\ rows[i].stored
                         /\ \/ ~\E j \in 1..Len(entries) : entries[j].event_id = i
                            \/ ~rows[i].did_not_attend)

\* sync_calendar_events up to its loop over the projects: the events
\* fetched from the calendar, and the enabled rows in order, those with a
\* query that parses.
sync_calendar_events ==
    /\ caller = "sync_calendar_events"
    /\ phase = "start"
    /\ batch' = Ids(events)
    /\ rules' = WithParsed(Ordered({ row \in Range(table) :
                     row.is_enabled /\ ParsedQuery(row.query) # NoneV }))
    /\ idx' = 1
    /\ phase' = "projects"
    /\ UNCHANGED <<parser, evaluator, caller, table, fingerprint_matchers,
                   matching_rule, request, response, requests, results, database,
                   dry_run, at, events_new, classified, attendance_updated,
                   matched, returned, previous, schedule>>

\* apply_rules_to_events up to its loop over the projects: the events
\* selected, and the enabled rows in order, _parsed_query None for a query
\* that does not parse.
apply_rules ==
    /\ caller = "apply_rules"
    /\ phase = "start"
    /\ batch' = Selected(events, time_entries)
    /\ rules' = WithParsed(Ordered({ row \in Range(table) : row.is_enabled }))
    /\ idx' = 1
    /\ phase' = "projects"
    /\ UNCHANGED <<parser, evaluator, caller, table, fingerprint_matchers,
                   matching_rule, request, response, requests, results, database,
                   dry_run, at, events_new, classified, attendance_updated,
                   matched, returned, previous, schedule>>

\* The query of the fingerprint of a project; the empty string for a
\* project without a pattern.
FingerprintQuery(proj) ==
    IF \/ proj.fingerprint_domains # <<>>
       \/ proj.fingerprint_emails # <<>>
       \/ proj.fingerprint_keywords # <<>>
    THEN build_fingerprint_query(proj.fingerprint_domains,
                                 proj.fingerprint_emails,
                                 proj.fingerprint_keywords)
    ELSE <<>>

\* One iteration of the loop over the projects up to its call of
\* parse_query, or the end of the loop.
fingerprint_query ==
    /\ caller \in BatchCallers
    /\ phase = "projects"
    /\ IF idx > Len(projects)
       THEN /\ phase' = "events"
            /\ UNCHANGED <<input, idx>>
       ELSE IF FingerprintQuery(projects[idx]) = <<>>
       THEN /\ idx' = idx + 1
            /\ UNCHANGED <<input, phase>>
       ELSE /\ input' = FingerprintQuery(projects[idx])
            /\ phase' = "fingerprint"
            /\ UNCHANGED idx
    /\ UNCHANGED <<query, pos, stack, status, error, ast, spins, pass, first,
                   evaluator, caller, table, fingerprint_matchers, rules,
                   matching_rule, request, response, requests, store>>

\* The iteration from the return of parse_query: the matcher is appended,
\* and a ParseError passed over.
fingerprint_matcher ==
    /\ caller \in BatchCallers
    /\ phase = "fingerprint"
    /\ status \in {"done", "ParseError"}
    /\ fingerprint_matchers' =
          IF status = "done"
          THEN Append(fingerprint_matchers,
                      [project_id |-> IntV(idx), parsed_query |-> ast])
          ELSE fingerprint_matchers
    /\ idx' = idx + 1
    /\ phase' = "projects"
    /\ input' = <<>>
    /\ query' = <<>>
    /\ pos' = 0
    /\ stack' = <<>>
    /\ status' = "idle"
    /\ error' = ""
    /\ ast' = NoAst
    /\ spins' = 0
    /\ UNCHANGED <<pass, first, evaluator, caller, table, rules, matching_rule,
                   request, response, requests, store>>

\* The SELECT of the time entry of an event that finds none, whatever the
\* table holds.
HasNoEntry(entries, event_id) == FALSE

\* SELECT ... FROM time_entries WHERE event_id = %s finds a row.
HasEntry(entries, event_id) ==
    \E j \in 1..Len(entries) : entries[j].event_id = event_id

\* event_data of the calendar sync: the attendees are the JSON text of the
\* list of addresses.
event_data(data) == [data EXCEPT !.attendees = StrV(json_dumps(@.v))]

\* One iteration of the loop over the events up to the loop over the
\* rules.  The calendar sync inserts or updates the row of the event, and
\* passes over an event that has a time entry.
events_loop ==
    /\ caller \in BatchCallers
    /\ phase = "events"
    /\ at < Len(batch)
    /\ at' = at + 1
    /\ IF caller = "sync_calendar_events"
       THEN /\ events' = [events EXCEPT ![batch[at + 1]].stored = TRUE]
            /\ events_new' =
                  IF events[batch[at + 1]].stored THEN events_new
                  ELSE events_new + 1
            /\ IF HasEntry(time_entries, batch[at + 1])
               THEN UNCHANGED <<event, idx, phase>>
               ELSE /\ event' = event_data(events[batch[at + 1]].data)
                    /\ idx' = 1
                    /\ phase' = "rules"
       ELSE /\ event' = events[batch[at + 1]].data
            /\ idx' = 1
            /\ phase' = "rules"
            /\ UNCHANGED <<events, events_new>>
    /\ UNCHANGED <<parser, cache, result, asked, again, calls, caller, table,
                   fingerprint_matchers, rules, matching_rule, request, response,
                   requests, results, projects, time_entries, dry_run, batch,
                   classified, attendance_updated, matched, returned, previous,
                   schedule>>

\* The fingerprint matchers are tried whatever the rules gave.
ConsultFingerprintsAlways(m) == TRUE

\* if not matching_rule: the fingerprint matchers are tried.
ConsultFingerprints(m) == m = NoneV

\* One iteration of the loop over parsed_rules, or its end.
try_rule ==
    /\ caller \in BatchCallers
    /\ phase = "rules"
    /\ IF idx > Len(rules)
       THEN /\ phase' = IF ConsultFingerprints(matching_rule) THEN "fingerprints"
                        ELSE "end"
            /\ idx' = 1
            /\ UNCHANGED matching_rule
       ELSE \E r \in {IF rules[idx].parsed_query # NoneV
                           /\ rules[idx].parsed_query.items # <<>>
                        THEN evaluate(rules[idx].parsed_query, event, NoCache).r
                        ELSE "False"} :
                /\ matching_rule' =
                      IF r = "True" THEN [k |-> "rule", id |-> rules[idx].id]
                      ELSE matching_rule
                /\ phase' = CASE r = "True" ->
                                   IF ConsultFingerprints(matching_rule')
                                   THEN "fingerprints" ELSE "end"
                               [] r = "False" -> phase
                               [] OTHER -> "raised"
                /\ idx' = CASE r = "True" -> 1
                            [] r = "False" -> idx + 1
                            [] OTHER -> idx
    /\ UNCHANGED <<parser, evaluator, caller, table, fingerprint_matchers, rules,
                   request, response, requests, store>>

\* One iteration of the loop over fingerprint_matchers, or its end.
try_fingerprint ==
    /\ caller \in BatchCallers
    /\ phase = "fingerprints"
    /\ IF idx > Len(fingerprint_matchers)
       THEN /\ phase' = "end"
            /\ UNCHANGED <<idx, matching_rule>>
       ELSE \E r \in {evaluate(fingerprint_matchers[idx].parsed_query, event,
                                 NoCache).r} :
                /\ matching_rule' =
                      IF r = "True" THEN [k |-> "fingerprint", id |-> idx]
                      ELSE matching_rule
                /\ phase' = CASE r = "True" -> "end"
                               [] r = "False" -> phase
                               [] OTHER -> "raised"
                /\ idx' = IF r = "False" THEN idx + 1 ELSE idx
    /\ UNCHANGED <<parser, evaluator, caller, table, fingerprint_matchers, rules,
                   request, response, requests, store>>

\* matching_rule.get("target_type", "project"), .get("project_id") and
\* .get("id") of a rule or of a fingerprint matcher.
TargetType(m) == IF m.k = "rule" THEN table[m.id].target_type ELSE "project"
ProjectId(m) ==
    IF m.k = "rule" THEN table[m.id].project_id
    ELSE fingerprint_matchers[m.id].project_id
RuleId(m) == IF m.k = "rule" THEN IntV(m.id) ELSE NoneV

\* datetime.fromisoformat(text.replace("Z", "+00:00")) returns.
IsoText(x) ==
    /\ x.k = "str"
    /\ fromisoformat(Replace(x.v, <<"Z">>, <<"+", "0", "0", ":", "0", "0">>)).ok

\* The hours of the event are computed; otherwise the computation raises
\* AttributeError (a null time) or ValueError.
HoursComputed(e) == IsoText(e.start_time) /\ IsoText(e.end_time)

\* INSERT INTO time_entries for the current event, which raises where the
\* hours cannot be computed.
InsertEntry(m) ==
    IF HoursComputed(event)
    THEN /\ time_entries' =
               Append(time_entries,
                      TimeEntry(batch[at], ProjectId(m), "rule", RuleId(m)))
         /\ classified' = Append(classified, batch[at])
         /\ phase' = "events"
         /\ matching_rule' = NoneV
    ELSE /\ phase' = "raised"
         /\ UNCHANGED <<time_entries, classified, matching_rule>>

\* Nothing is written for the current event and the loop goes on.
NoWrite ==
    /\ phase' = "events"
    /\ matching_rule' = NoneV
    /\ UNCHANGED <<events, time_entries, classified, attendance_updated, matched>>

\* The rest of the iteration of the calendar sync: what is written for
\* the rule or the matcher found.
classify_sync ==
    IF matching_rule = NoneV THEN NoWrite
    ELSE IF TargetType(matching_rule) = "did_not_attend"
    THEN /\ events' = [events EXCEPT ![batch[at]].did_not_attend = TRUE]
         /\ phase' = "events"
         /\ matching_rule' = NoneV
         /\ UNCHANGED <<time_entries, classified, attendance_updated, matched>>
    ELSE IF TargetType(matching_rule) = "project"
            /\ ~Falsy(ProjectId(matching_rule))
    THEN /\ InsertEntry(matching_rule)
         /\ UNCHANGED <<events, attendance_updated, matched>>
    ELSE NoWrite

\* The rest of the iteration of apply_rules_to_events.
classify_apply ==
    IF matching_rule = NoneV THEN NoWrite
    ELSE IF dry_run
    THEN /\ matched' = Append(matched, [event_id |-> batch[at],
                                        target_type |-> TargetType(matching_rule)])
         /\ phase' = "events"
         /\ matching_rule' = NoneV
         /\ UNCHANGED <<events, time_entries, classified, attendance_updated>>
    ELSE IF TargetType(matching_rule) = "did_not_attend"
    THEN IF ~events[batch[at]].did_not_attend
         THEN /\ events' = [events EXCEPT ![batch[at]].did_not_attend = TRUE]
              /\ attendance_updated' = Append(attendance_updated, batch[at])
              /\ phase' = "events"
              /\ matching_rule' = NoneV
              /\ UNCHANGED <<time_entries, classified, matched>>
         ELSE NoWrite
    ELSE IF TargetType(matching_rule) = "project"
    THEN IF ProjectId(matching_rule) = NoneV THEN NoWrite
         ELSE IF HasEntry(time_entries, batch[at]) THEN NoWrite
         ELSE /\ InsertEntry(matching_rule)
              /\ UNCHANGED <<events, attendance_updated, matched>>
    ELSE NoWrite

\* The end of the iteration for an event the loops have been run on.
classify ==
    /\ caller \in BatchCallers
    /\ phase = "end"
    /\ IF caller = "sync_calendar_events" THEN classify_sync ELSE classify_apply
    /\ UNCHANGED <<parser, evaluator, caller, table, fingerprint_matchers, rules,
                   idx, request, response, requests, results, projects, dry_run,
                   batch, at, events_new, returned, previous, schedule>>

\* The matches of a dry run with a target type.
Matched(target_type) ==
    Len(SelectSeq(matched, LAMBDA m : m.target_type = target_type))

\* The dict a run returns after its loop over the events.
Response ==
    IF caller = "sync_calendar_events"
    THEN [ events_fetched |-> Len(batch), events_new |-> events_new,
           events_updated |-> Len(batch) - events_new,
           events_classified |-> Len(classified) ]
    ELSE IF dry_run
    THEN [ dry_run |-> TRUE, would_classify |-> Matched("project"),
           would_mark_did_not_attend |-> Matched("did_not_attend") ]
    ELSE [ classified |-> Len(classified),
           attendance_updated |-> Len(attendance_updated) ]

return_response ==
    /\ caller \in BatchCallers
    /\ phase = "events"
    /\ at = Len(batch)
    /\ returned' = Response
    /\ phase' = "returned"
    /\ UNCHANGED <<parser, evaluator, caller, table, fingerprint_matchers, rules,
                   idx, matching_rule, request, response, requests, results,
                   database, dry_run, batch, at, events_new, classified,
                   attendance_updated, matched, previous, schedule>>

\* The next run starts after the one before has returned or raised.
next_run ==
    /\ caller \in BatchCallers
    /\ phase \in {"returned", "raised"}
    /\ schedule # <<>>
    /\ previous' = [caller |-> caller, dry_run |-> dry_run, returned |-> returned]
    /\ caller' = Head(schedule).caller
    /\ dry_run' = Head(schedule).dry_run
    /\ schedule' = Tail(schedule)
    /\ phase' = "start"
    /\ event' = NoneV
    /\ fingerprint_matchers' = <<>>
    /\ rules' = <<>>
    /\ idx' = 0
    /\ matching_rule' = NoneV
    /\ batch' = <<>>
    /\ at' = 0
    /\ events_new' = 0
    /\ classified' = <<>>
    /\ attendance_updated' = <<>>
    /\ matched' = <<>>
    /\ returned' = NoneV
    /\ UNCHANGED <<parser, cache, result, asked, again, calls, table, request,
                   response, requests, results, database>>

\* EventProperties.get of a native property.
props_get(e, property_name) ==
    IF e[property_name] = Absent THEN NoneV ELSE e[property_name]

\* ConditionEvaluator.evaluate inside the try of _evaluate_rule: "contains"
\* is the condition type the rules here use; a type without an _eval_
\* method raises ValueError, which _evaluate_rule turns into False.
ConditionHolds(c, e) ==
    LET prop_val == props_get(e, c.property_name)
    IN  /\ prop_val # NoneV
        /\ c.condition_type = "contains"
        /\ prop_val.k = "str"
        /\ Contains(Lower(prop_val.v), Lower(c.condition_value))

\* RuleMatcher._evaluate_rule
evaluate_rule(rule, e) ==
    /\ rule.conditions # <<>>
    /\ \A i \in 1..Len(rule.conditions) : ConditionHolds(rule.conditions[i], e)

\* RuleMatcher.__init__: every rule given, sorted.
RuleMatcher ==
    /\ caller = "RuleMatcher"
    /\ phase = "start"
    /\ rules' = Ordered(Range(table))
    /\ idx' = 1
    /\ phase' = "rules"
    /\ UNCHANGED <<parser, evaluator, caller, table, fingerprint_matchers,
                   matching_rule, request, response, requests, store>>

\* RuleMatcher.match: one iteration of its loop, or its end.
match ==
    /\ caller = "RuleMatcher"
    /\ phase = "rules"
    /\ IF idx > Len(rules)
       THEN /\ phase' = "end"
            /\ UNCHANGED <<idx, matching_rule>>
       ELSE IF rules[idx].is_enabled /\ evaluate_rule(rules[idx], event)
       THEN /\ matching_rule' = [k |-> "rule", id |-> rules[idx].id]
            /\ phase' = "end"
            /\ UNCHANGED idx
       ELSE /\ idx' = idx + 1
            /\ UNCHANGED <<phase, matching_rule>>
    /\ UNCHANGED <<parser, evaluator, caller, table, fingerprint_matchers, rules,
                   request, response, requests, store>>

\* RuleMatcher.match_all for one rule: matched is all_matched and
\* rule.is_enabled, where all_matched starts True and each condition that
\* fails, or raises ValueError, makes it False.
RuleMatch(rule, e) ==
    [ id |-> rule.id,
      matched |-> /\ \A i \in 1..Len(rule.conditions) :
                        ConditionHolds(rule.conditions[i], e)
                  /\ rule.is_enabled ]

\* RuleMatcher.match_all on the event match has been called on.
match_all ==
    /\ caller = "RuleMatcher"
    /\ phase = "end"
    /\ results = NoneV
    /\ results' = ListV([i \in 1..Len(rules) |-> RuleMatch(rules[i], event)])
    /\ UNCHANGED <<parser, evaluator, caller, table, fingerprint_matchers, rules,
                   idx, matching_rule, phase, request, response, requests,
                   database, run>>

(***************************************************************************)
(* The endpoints that create and update a rule.  Each handler runs up to   *)
(* its call of parse_query, the parser runs, and the handler goes on from  *)
(* what parse_query returned or raised.                                    *)
(***************************************************************************)
\* The handler hands the stripped query to parse_query.
Validate(text) ==
    /\ input' = Strip(text)
    /\ response' = "validating"
    /\ UNCHANGED <<query, pos, stack, status, error, ast, spins, pass, first,
                   evaluator, caller, table, loops, request, requests>>

Answer(code) ==
    /\ response' = code
    /\ UNCHANGED <<parser, evaluator, caller, table, loops, request, requests>>

\* The try around parse_query passes whatever does not raise ParseError.
ValidatedAlways(st) == TRUE

\* The try around parse_query: ParseError is answered with 400.
Validated(st) == st = "done"

\* POST /rules up to the call of parse_query.
create_classification_rule ==
    /\ caller = "rule_requests"
    /\ request.endpoint = "create"
    /\ response = "none"
    /\ IF request.query = Absent THEN Answer("400")
       ELSE IF request.query.k # "str" THEN Answer("AttributeError")
       ELSE IF Strip(request.query.v) = <<>> THEN Answer("400")
       ELSE Validate(request.query.v)

\* POST /rules from the return of parse_query: the target is checked and
\* the rule inserted.
create_classification_rule_insert ==
    /\ caller = "rule_requests"
    /\ request.endpoint = "create"
    /\ response = "validating"
    /\ status \in {"done", "ParseError"}
    /\ IF ~Validated(status) THEN Answer("400")
       ELSE IF request.target_type \notin {"project", "did_not_attend"}
       THEN Answer("400")
       ELSE IF request.target_type = "project" /\ request.project = "absent"
       THEN Answer("400")
       ELSE IF request.target_type = "project" /\ request.project = "unknown"
       THEN Answer("404")
       ELSE /\ table' = Append(table, StoredRule(Len(table) + 1, input))
            /\ response' = "200"
            /\ UNCHANGED <<parser, evaluator, caller, loops, request, requests>>

\* The UPDATE of the fields the request carries.
Updated(row, text) ==
    [row EXCEPT !.query = text,
                !.is_enabled = IF request.is_enabled = Absent THEN @
                               ELSE request.is_enabled.v]

Update(text) ==
    /\ table' = [table EXCEPT ![request.rule_id] = Updated(@, text)]
    /\ response' = "200"
    /\ UNCHANGED <<parser, evaluator, caller, loops, request, requests>>

\* PUT /rules/{rule_id} up to the call of parse_query, and to its end for
\* a request without a query.
update_classification_rule ==
    /\ caller = "rule_requests"
    /\ request.endpoint = "update"
    /\ response = "none"
    /\ IF request.rule_id \notin 1..Len(table) THEN Answer("404")
       ELSE IF request.query = Absent
       THEN IF request.is_enabled = Absent THEN Answer("400")
            ELSE Update(table[request.rule_id].query)
       ELSE IF request.query.k # "str" THEN Answer("AttributeError")
       ELSE IF Strip(request.query.v) = <<>> THEN Answer("400")
       ELSE Validate(request.query.v)

\* PUT /rules/{rule_id} from the return of parse_query.
update_classification_rule_store ==
    /\ caller = "rule_requests"
    /\ request.endpoint = "update"
    /\ response = "validating"
    /\ status \in {"done", "ParseError"}
    /\ IF ~Validated(status) THEN Answer("400") ELSE Update(input)

\* The next request arrives after the answer to the one before.
next_request ==
    /\ caller = "rule_requests"
    /\ response \notin {"none", "validating"}
    /\ requests < MaxRequests
    /\ request' \in Requests
    /\ response' = "none"
    /\ requests' = requests + 1
    /\ input' = <<>>
    /\ query' = <<>>
    /\ pos' = 0
    /\ stack' = <<>>
    /\ status' = "idle"
    /\ error' = ""
    /\ ast' = NoAst
    /\ spins' = 0
    /\ UNCHANGED <<pass, first, evaluator, caller, table, loops>>

Next ==
    \/ parse_query
    \/ ParseReturn
    \/ TopGroup
    \/ TopTerm
    \/ GroupNested
    \/ GroupOr
    \/ GroupTerm
    \/ GroupClose
    \/ GroupUnclosed
    \/ Render
    \/ evaluate_query
    \/ evaluate_again
    \/ sync_calendar_events
    \/ apply_rules
    \/ fingerprint_query
    \/ fingerprint_matcher
    \/ events_loop
    \/ try_rule
    \/ try_fingerprint
    \/ classify
    \/ return_response
    \/ next_run
    \/ RuleMatcher
    \/ match
    \/ match_all
    \/ create_classification_rule
    \/ create_classification_rule_insert
    \/ update_classification_rule
    \/ update_classification_rule_store
    \/ next_request

Spec == Init /\ [][Next]_vars

(***************************************************************************)
(* Properties.                                                             *)
(***************************************************************************)
\* The parse has ended for the string in input.
Returned == status = "done"
Raised == status = "ParseError"
Evaluated == result # "none"

\* The Term nodes and the OrGroup nodes of an AST, at any depth.
RECURSIVE TermsOf(_)
TermsOf(item) ==
    IF item.type = "Term" THEN {item}
    ELSE UNION { TermsOf(item.terms[i]) : i \in 1..Len(item.terms) }
AstTerms(a) == UNION { TermsOf(a.items[i]) : i \in 1..Len(a.items) }

RECURSIVE GroupsOf(_)
GroupsOf(item) ==
    IF item.type = "Term" THEN {}
    ELSE {item} \cup UNION { GroupsOf(item.terms[i]) : i \in 1..Len(item.terms) }
AstGroups(a) == UNION { GroupsOf(a.items[i]) : i \in 1..Len(a.items) }

\* item matches the event of the state
Matches(item) == evaluate_item(item, event, NoCache).r = "True"

\* C1: round trip.  When parse_query has succeeded on a string, parsing the
\* rendering of its AST succeeds too (it neither raises nor loops) and
\* returns an AST equal to the first one.
C1_RoundTrip ==
    pass = 2 =>
        /\ ~Raised
        /\ spins = 0
        /\ Returned => ast = first

\* C2: parse_query terminates, because every iteration of the top-level
\* loop and of the group loop moves the cursor forward: no iteration leaves
\* it where it was.
C2_CursorAdvances == spins = 0

\* Where the parser is about to call _parse_term, and the character the
\* term would start with.
TermStart == skip_whitespace(query, pos)
ExpectsTerm ==
    /\ status = "parsing"
    /\ TermStart < Len(query)
    /\ IF Len(stack) = 1
       THEN query[TermStart + 1] # "("
       ELSE /\ GroupLoopRuns
            /\ query[TermStart + 1] \notin {"(", ")"}
            /\ ~IsOrKeyword(query, TermStart)
StartsProperty == IsLetter(query[TermStart + 1])

\* C3: whenever the parser expects a term and the next character cannot
\* start a property name, the parse fails with ParseError at that step.
C3_NoPropertyRaises ==
    [][(ExpectsTerm /\ ~StartsProperty) => status' = "ParseError"]_vars

\* The malformations of a term the parser is about to read, and of the
\* group it is in.
RECURSIVE HasClosingQuote(_, _)
HasClosingQuote(q, p) ==
    IF p >= Len(q) THEN FALSE
    ELSE IF q[p + 1] = "\"" THEN TRUE
    ELSE IF q[p + 1] = "\\" /\ p + 1 < Len(q) THEN HasClosingQuote(q, p + 2)
    ELSE HasClosingQuote(q, p + 1)
AfterProperty == TermStart + PropertyMatch(query, TermStart)
HasColon == AfterProperty < Len(query) /\ query[AfterProperty + 1] = ":"
MissingColon == ExpectsTerm /\ StartsProperty /\ ~HasColon
EmptyValue ==
    /\ ExpectsTerm /\ StartsProperty /\ HasColon
    /\ IF AfterProperty + 1 >= Len(query) THEN TRUE
       ELSE query[AfterProperty + 2] \in Whitespace \cup {"(", ")"}
UnclosedQuote ==
    /\ ExpectsTerm /\ StartsProperty /\ HasColon
    /\ IF AfterProperty + 1 >= Len(query) THEN FALSE
       ELSE /\ query[AfterProperty + 2] = "\""
            /\ ~HasClosingQuote(query, AfterProperty + 2)
UnclosedGroup ==
    /\ InGroupLoop
    /\ ")" \notin Range(Slice(query, pos, Len(query)))
Malformed == MissingColon \/ EmptyValue \/ UnclosedQuote \/ UnclosedGroup

\* C4: a malformation raises ParseError wherever the parse meets it.  At a
\* property name without its colon, a colon without a value or a quoted
\* value that is never closed, the step raises; inside a group that is
\* never closed every step raises or moves the cursor forward, so that the
\* end of the input, where the group raises, is reached.
C4_MalformedRaises ==
    [][Malformed => (status' = "ParseError" \/ (UnclosedGroup' /\ pos' > pos))]_vars

\* C5: the empty string and every whitespace-only string parse to an
\* AndGroup without items and never raise, and an AndGroup without items
\* evaluates to false for every event.
Blank(s) == Strip(s) = <<>>
C5_EmptyNeverMatches ==
    /\ Blank(input) =>
          /\ status \in {"idle", "done"}
          /\ Returned => ast = AndGroup(<<>>)
    /\ (Evaluated /\ ast.items = <<>>) => result = "False"

\* A whitespace-only string has been parsed and evaluated on an event
\* with a title.
C5_Witness ==
    /\ input # <<>>
    /\ Blank(input)
    /\ ast = AndGroup(<<>>)
    /\ event = MeetingEvent
    /\ result = "False"

\* C6: an AndGroup with at least one item evaluates to true exactly when
\* each of its items matches the event, and evaluates to the same result
\* with its items in any other order.
C6_AndSemantics ==
    (Evaluated /\ ast.items # <<>>) =>
        /\ result = "True" <=> \A i \in 1..Len(ast.items) : Matches(ast.items[i])
        /\ \A f \in Permutations(1..Len(ast.items)) :
              evaluate(AndGroup([i \in 1..Len(ast.items) |-> ast.items[f[i]]]),
                       event, NoCache).r = result

\* C7: every OrGroup of the query, nested ones and empty ones included,
\* matches the event exactly when one of its members does.
C7_OrSemantics ==
    Evaluated =>
        \A g \in AstGroups(ast) :
            Matches(g) <=> \E i \in 1..Len(g.terms) : Matches(g.terms[i])

\* The name of the property the parser is about to read.
PropertyAhead == Lower(Slice(query, TermStart, AfterProperty))
UnknownAhead ==
    /\ ExpectsTerm /\ StartsProperty
    /\ PropertyAhead \notin PROPERTIES
    /\ ~MissingColon /\ ~EmptyValue /\ ~UnclosedQuote
\* The queries of the inputs that are one term on an unknown property.
UnknownTerms ==
    { TermText(name, value) :
        name \in { s_bogus, s_or, s_ORx, <<"t","i","t","l","e","s">> },
        value \in { s_x, s_sync } }

\* C8: a term on a property outside the fifteen known ones is read by the
\* parser like any other term, without ParseError, and evaluates to false
\* on every event, whatever its value.
C8_UnknownNeverMatches ==
    /\ UnknownAhead =>
          /\ parse_term(query, TermStart).kind = "Term"
          /\ parse_term(query, TermStart).value.property = PropertyAhead
    /\ input \in UnknownTerms =>
          /\ ~Raised
          /\ spins = 0
          /\ Returned => /\ Len(ast.items) = 1
                         /\ ast.items[1].type = "Term"
                         /\ ast.items[1].property \notin PROPERTIES
          /\ Evaluated => result = "False"
    /\ Evaluated =>
          \A t \in AstTerms(ast) :
              t.property \notin PROPERTIES =>
                  evaluate_term(t, event, NoCache).r = "False"

\* bogus:sync has been evaluated on an event whose title contains sync.
C8_Witness ==
    /\ input = TermText(s_bogus, s_sync)
    /\ Returned
    /\ event = MeetingEvent
    /\ result = "False"

\* The keys of the event a property reads.
ReadsKeys(property) ==
    CASE property = s_title -> {"title"}
      [] property = s_description -> {"description"}
      [] property \in {s_attendees, s_domain, s_email, s_has_attendees} ->
           {"attendees"}
      [] property = s_response -> {"my_response_status"}
      [] property = s_recurring -> {"is_recurring"}
      [] property = s_is_all_day -> {"start_time", "end_time"}
      [] property = s_transparency -> {"transparency"}
      [] property = s_visibility -> {"visibility"}
      [] property \in {s_day_of_week, s_time_of_day} -> {"start_time"}
      [] property = s_color -> {"event_color"}
      [] property = s_recurrence_id -> {"recurrence_id"}
      [] OTHER -> {}

\* A term on a known property, on an event without a key the property reads.
Lacks(t) == \E key \in ReadsKeys(t.property) : event[key] = Absent

MatchesDefault(t) ==
    LET value == normalize_for_match(Lower(t.value))
        false_values == { s_no, <<"f","a","l","s","e">>, <<"0">>, <<"o","f","f">> }
    IN  CASE t.property \in { s_title, s_description, s_response, s_color,
                              s_recurrence_id } -> value = <<>>
          [] t.property \in { s_recurring, s_has_attendees } ->
               value \in false_values
          [] t.property = s_is_all_day ->
               value \in false_values /\ event["start_time"] # NoneV
          [] t.property = s_transparency -> value \in { s_busy, s_opaque }
          [] t.property = s_visibility -> value = s_default
          [] OTHER -> FALSE

C10_EvaluationTotal == Evaluated => result \in {"True", "False"}


\* A timestamp that is missing, empty or not ISO-8601 text.
BadTime(x) ==
    \/ x \in {Absent, NoneV}
    \/ x.k = "str" /\ ~fromisoformat(Replace(x.v, <<"Z">>, <<"+","0","0",":","0","0">>)).ok
ReadsBadTime(t) ==
    \/ /\ t.property \in {s_day_of_week, s_time_of_day}
       /\ BadTime(event["start_time"])
    \/ /\ t.property = s_is_all_day
       /\ (BadTime(event["start_time"]) \/ BadTime(event["end_time"]))

\* C11: on an event whose start_time (for is-all-day, start_time or
\* end_time) is missing, empty or unparseable, a day-of-week, time-of-day
\* or is-all-day term evaluates to false whatever its value, without an
\* exception.
C11_BadTimestampIsFalse ==
    Evaluated =>
        \A t \in AstTerms(ast) :
            ReadsBadTime(t) => evaluate_term(t, event, NoCache).r = "False"


\* The quote characters: straight and curly, double and single.
QuoteChars == { "\"", "'", "U+201C", "U+201D", "U+2018", "U+2019" }
RECURSIVE Unquote(_)
Unquote(text) ==
    IF text = <<>> THEN <<>>
    ELSE IF Head(text) \in QuoteChars THEN Unquote(Tail(text))
    ELSE <<Head(text)>> \o Unquote(Tail(text))

\* The event with the quote characters removed from its texts and from
\* the addresses of an attendee list.
UnquotedValue(x) ==
    IF x.k = "str" THEN StrV(Unquote(x.v))
    ELSE IF x.k = "list"
    THEN ListV([i \in 1..Len(x.v) |->
                  IF x.v[i].k = "str" THEN StrV(Unquote(x.v[i].v)) ELSE x.v[i]])
    ELSE x
UnquotedEvent(e) ==
    [key \in Keys |->
        IF key = "attendees" /\ e[key].k = "str" THEN e[key]
        ELSE UnquotedValue(e[key])]

StringProperties ==
    { s_title, s_description, s_attendees, s_domain, s_email, s_response,
      s_transparency, s_visibility, s_color, s_recurrence_id }

\* The term's value is, but for letter case, an address of the attendee
\* list of the event.
IsAttendeeAddress(t) ==
    /\ event["attendees"].k = "list"
    /\ \E i \in 1..Len(event["attendees"].v) :
          /\ event["attendees"].v[i].k = "str"
          /\ Lower(event["attendees"].v[i].v) = Lower(t.value)

\* C12: for a term on a string-valued property, quote characters count on
\* neither side: removing them from the term's value, or from the texts of
\* the event, does not change the outcome; so an email term that equals an
\* attendee's address but for letter case matches, apostrophe or not.
C12_QuotesIgnored ==
    Evaluated =>
        \A t \in AstTerms(ast) :
            t.property \in StringProperties =>
                /\ evaluate_term(Term(t.property, Unquote(t.value)), event, NoCache).r
                     = evaluate_term(t, event, NoCache).r
                /\ evaluate_term(t, UnquotedEvent(event), NoCache).r
                     = evaluate_term(t, event, NoCache).r
                /\ (t.property = s_email /\ IsAttendeeAddress(t)) => Matches(t)


\* A value that is an operator, or none, before a target HH:MM.
IsClock(s) ==
    /\ Len(s) = 5
    /\ IsDigit(s[1]) /\ IsDigit(s[2]) /\ s[3] = ":" /\ IsDigit(s[4]) /\ IsDigit(s[5])
Operators == { <<>>, <<">">>, <<">", "=">>, <<"<">>, <<"<", "=">> }
IsTarget(value) ==
    /\ Len(value) >= 5
    /\ Slice(value, 0, Len(value) - 5) \in Operators
    /\ IsClock(Slice(value, Len(value) - 5, Len(value)))
OperatorOf(value) == Slice(value, 0, Len(value) - 5)
TargetMinutes(value) ==
    LET clock == Slice(value, Len(value) - 5, Len(value))
    IN  (DigitValue(clock[1]) * 10 + DigitValue(clock[2])) * 60
          + DigitValue(clock[4]) * 10 + DigitValue(clock[5])

\* A start time YYYY-MM-DDTHH:MM..., and the minutes since midnight its
\* text gives, whatever offset follows.
IsTimedStart(x) ==
    /\ x.k = "str"
    /\ ~BadTime(x)
    /\ Len(x.v) >= 16
    /\ x.v[11] = "T"
StartMinutes(x) ==
    (DigitValue(x.v[12]) * 10 + DigitValue(x.v[13])) * 60
      + DigitValue(x.v[15]) * 10 + DigitValue(x.v[16])

Compares(op, m, target) ==
    CASE op = <<">">> -> m > target
      [] op = <<">", "=">> -> m >= target
      [] op = <<"<">> -> m < target
      [] op = <<"<", "=">> -> m <= target
      [] OTHER -> m = target

\* C13: a time-of-day term with a target HH:MM matches an event exactly
\* when the minutes since midnight of its start, read in the start's own
\* offset, stand to the target as the operator says: >, >=, <, <=, and
\* equality without an operator.
C13_TimeOfDayCompares ==
    Evaluated =>
        /\ \A t \in AstTerms(ast) :
              (t.property = s_time_of_day /\ IsTarget(t.value)
                 /\ IsTimedStart(event["start_time"])) =>
                  (Matches(t) <=>
                     Compares(OperatorOf(t.value),
                              StartMinutes(event["start_time"]),
                              TargetMinutes(t.value)))
        /\ (ast.items # <<>> /\ ast = AndGroup(<<ast.items[1]>>)
              /\ ast.items[1].type = "Term"
              /\ ast.items[1].property = s_time_of_day
              /\ IsTarget(ast.items[1].value)
              /\ IsTimedStart(event["start_time"])) =>
              (result = "True" <=>
                 Compares(OperatorOf(ast.items[1].value),
                          StartMinutes(event["start_time"]),
                          TargetMinutes(ast.items[1].value)))

\* time-of-day:>=14:30 has been evaluated on a meeting that starts at
\* 14:30, and matched.
C13_Witness ==
    /\ input = TermText(s_time_of_day, s_ge1430)
    /\ event = MeetingEvent
    /\ result = "True"


\* The addresses of the attendees of the event, when they are texts.
Addresses == attendees(event, NoCache).val
HasAddresses ==
    /\ Addresses.k = "list"
    /\ \A i \in 1..Len(Addresses.v) : Addresses.v[i].k = "str"
\* The text after the '@' of an address that has one.
TextAfterAt(s) ==
    LET sign == CHOOSE i \in 1..Len(s) : s[i] = "@" /\ \A j \in 1..(i - 1) : s[j] # "@"
    IN  SubSeq(s, sign + 1, Len(s))
\* v is the domain of one of the attendees.
IsDomainOfAttendee(v) ==
    \E i \in 1..Len(Addresses.v) :
        /\ "@" \in Range(Addresses.v[i].v)
        /\ v = Lower(TextAfterAt(Addresses.v[i].v))

WithoutQuotes(text) == SelectSeq(text, LAMBDA ch : ch \notin {"\"", "'"})

TrueValues == { <<"y","e","s">>, <<"t","r","u","e">>, <<"1">>, <<"o","n">> }
FalseValues == { <<"n","o">>, <<"f","a","l","s","e">>, <<"0">>, <<"o","f","f">> }
BooleanProperties == { s_recurring, s_is_all_day, s_has_attendees }
\* The start and the end of the event both fall at midnight.
AtMidnight ==
    LET start == event["start_time"]
        end == event["end_time"]
        midnight == <<"T","0","0",":","0","0",":","0","0">>
    IN  /\ start.k = "str" /\ Contains(start.v, midnight)
        /\ end.k = "str" /\ EndsWith(end.v, midnight)
\* The boolean under a boolean term: "True", "False", or "None" for an
\* is_recurring that is null.
Underlying(property) ==
    CASE property = s_recurring ->
           LET x == event["is_recurring"]
           IN  IF x = Absent THEN "False"
               ELSE IF x.k = "bool" THEN B(x.v) ELSE "None"
      [] property = s_is_all_day -> B(AtMidnight)
      [] property = s_has_attendees -> B(Addresses.k = "list" /\ Addresses.v # <<>>)

\* C15: a boolean term (recurring, is-all-day, has-attendees) whose value is
\* yes, true, 1 or on in any case matches exactly when the boolean under it
\* is true, one whose value is no, false, 0 or off exactly when it is false,
\* and one with any other value never matches.
C15_BooleanValues ==
    Evaluated =>
        \A t \in AstTerms(ast) :
            t.property \in BooleanProperties =>
                LET v == Lower(t.value)
                    b == Underlying(t.property)
                IN  /\ v \in TrueValues => (Matches(t) <=> b = "True")
                    /\ v \in FalseValues => (Matches(t) <=> b = "False")
                    /\ v \notin TrueValues \cup FalseValues => ~Matches(t)


\* C16: evaluation is pure.  A call of evaluate changes neither the event
\* nor the AST, and a call on a QueryEvaluator that has already evaluated
\* this or other ASTs gives what a new QueryEvaluator gives for the same AST
\* and event: for the AST of the first call, what the first call gave.
C16_EvaluationIsPure ==
    [][ /\ calls' > calls => (event' = event /\ ast' = ast)
        /\ again' # "none" =>
              /\ again' = evaluate(asked', event', NoCache).r
              /\ asked' = ast' => again' = result' ]_vars

\* has-attendees:yes has been evaluated again, with the same result, on a
\* QueryEvaluator that had evaluated another AST in between.
C16_Witness ==
    /\ calls = 3
    /\ input = TermText(s_has_attendees, s_yes)
    /\ event = MeetingEvent
    /\ asked = ast
    /\ cache.domains # NoneV
    /\ result = "True"
    /\ again = "True"


\* A rule's match of the event: by its query in the calendar sync and the
\* apply-rules endpoint, by its conditions in RuleMatcher.  A query that
\* does not parse, and an evaluation that raises, is no match.
RuleApplies(row) ==
    IF caller = "RuleMatcher"
    THEN row.conditions # <<>>
         /\ \A i \in 1..Len(row.conditions) :
               /\ row.conditions[i].condition_type = "contains"
               /\ event[row.conditions[i].property_name].k = "str"
               /\ Contains(Lower(event[row.conditions[i].property_name].v),
                           Lower(row.conditions[i].condition_value))
    ELSE /\ ParsedQuery(row.query) # NoneV
         /\ evaluate(ParsedQuery(row.query), event, NoCache).r = "True"
\* a comes before b in descending priority, the lower id first among equals.
Earlier(a, b) ==
    \/ a.priority > b.priority
    \/ a.priority = b.priority /\ a.id < b.id
EnabledRows == { table[i] : i \in { j \in 1..Len(table) : table[j].is_enabled } }

\* C17: first match wins.  In the loops of the calendar sync, of the
\* apply-rules endpoint and of RuleMatcher.match the rules are tried in
\* descending priority, the lower id first among equals; the rule applied
\* to the event is enabled, matches it, and no enabled rule before it in
\* that order matches it; the loop stops at it, so that no later rule is
\* applied (what follows the loop writes for that rule, or raises); and a
\* loop that ends without a rule found no enabled rule that matches.
C17_FirstMatchWins ==
    phase \notin {"none", "start"} =>
        /\ \A i, j \in 1..Len(rules) : i < j => Earlier(rules[i], rules[j])
        /\ matching_rule.k = "rule" =>
              /\ phase \in {"end", "raised"}
              /\ table[matching_rule.id] \in EnabledRows
              /\ RuleApplies(table[matching_rule.id])
              /\ \A s \in EnabledRows :
                    Earlier(s, table[matching_rule.id]) => ~RuleApplies(s)
        /\ (phase \in {"fingerprints", "end"} /\ matching_rule.k # "rule") =>
              \A s \in EnabledRows : ~RuleApplies(s)

\* The apply-rules endpoint has applied rule 2, of the higher priority, to
\* the meeting, which the enabled rule 1 matches too.
C17_Witness ==
    /\ caller = "apply_rules"
    /\ phase = "end"
    /\ Len(table) = 2
    /\ table[1].is_enabled
    /\ RuleApplies(table[1])
    /\ table[2].priority > table[1].priority
    /\ matching_rule = [k |-> "rule", id |-> 2]


\* The handler answers the request in this step.
Answered == response \in {"none", "validating"} /\ response' \notin {"none", "validating"}
\* The query of the request is empty, or parse_query has raised on it.
InvalidQuery ==
    /\ request.query.k = "str"
    /\ (Strip(request.query.v) = <<>> \/ status = "ParseError")
\* The request creates a rule, or updates one that is stored.
AddressesRule == request.endpoint = "create" \/ request.rule_id \in 1..Len(table)
\* Every stored query is non-empty, each query stored in this step is the
\* text parse_query has just returned on, and parse_query raises on no
\* stored text.
StoredValid ==
    /\ \A i \in 1..Len(table) : table[i].query # <<>>
    /\ \A i \in 1..Len(table') :
          /\ table'[i].query # <<>>
          /\ (i > Len(table) \/ table'[i].query # table[i].query) =>
                (status = "done" /\ table'[i].query = query)
          /\ status' = "ParseError" => table'[i].query # query'
    /\ response' = "400" => table' = table

\* C18 as stated: the stored queries stay valid through the requests to
\* create and to update a rule, and every request whose query is empty or
\* raises ParseError is answered with 400 and changes no stored rule.
C18_InvalidIsAnswered400 ==
    [][ caller = "rule_requests" =>
          /\ StoredValid
          /\ (Answered /\ InvalidQuery) => (response' = "400" /\ table' = table)
      ]_vars

\* C18, amended: the stored queries stay valid through the requests to
\* create and to update a rule, and a request to create a rule, or to
\* update a stored rule, whose query is empty or raises ParseError is
\* answered with 400 and changes no stored rule.
C18_StoredQueriesValid ==
    [][ caller = "rule_requests" =>
          /\ StoredValid
          /\ (Answered /\ InvalidQuery /\ AddressesRule) =>
                (response' = "400" /\ table' = table)
          /\ (Answered /\ InvalidQuery /\ ~AddressesRule) =>
                (response' = "404" /\ table' = table)
      ]_vars

\* A first request has created the rule is-all-day:yes, stored without the
\* whitespace around it, and a second one, to set its query to a text
\* parse_query raises on, has been answered with 400.
C18_Witness ==
    /\ requests = 2
    /\ table = <<StoredRule(1, TermText(s_is_all_day, s_yes))>>
    /\ request = UpdateRequest(1, StrV(s_title), Absent)
    /\ status = "ParseError"
    /\ response = "400"


\* The example inputs written by the grammar, and the one that has OR
\* outside parentheses.
ExampleAnd ==
    TermText(s_domain, s_acme_com) \o <<" ">>
        \o TermText(s_title, Quoted(<<"w","e","e","k","l","y"," ","s","y","n","c">>))
ExampleGroup ==
    <<"(">> \o TermText(s_domain, <<"a",".","c","o","m">>)
        \o <<" ","O","R"," ">> \o TermText(s_domain, <<"b",".","c","o","m">>)
        \o <<")">>
ExampleTopLevelOr == ExampleQueries \ {ExampleAnd, ExampleGroup}

\* C19 as stated: parse_query raises ParseError on none of the example
\* inputs of the external-interface section.
C19_ExamplesAccepted == input \in ExampleQueries => status # "ParseError"

\* C19, amended: on the examples domain:acme.com title:"weekly sync" and
\* (domain:a.com OR domain:b.com) parse_query neither raises nor loops, and
\* returns the two terms, and the group of two terms; on
\* response:declined OR transparency:free, where OR stands outside
\* parentheses, it returns no AST: it raises ParseError for the missing ':'
\* after the property name or.
C19_ExamplesParse ==
    /\ input \in {ExampleAnd, ExampleGroup} =>
          /\ status # "ParseError"
          /\ spins = 0
          /\ status \in {"idle", "parsing", "done"}
    /\ (input = ExampleAnd /\ status = "done") =>
          ast = AndGroup(<<Term(s_domain, s_acme_com),
                           Term(s_title, <<"w","e","e","k","l","y"," ","s","y","n","c">>)>>)
    /\ (input = ExampleGroup /\ status = "done") =>
          ast = AndGroup(<<OrGroup(<<Term(s_domain, <<"a",".","c","o","m">>),
                                     Term(s_domain, <<"b",".","c","o","m">>)>>)>>)
    /\ input \in ExampleTopLevelOr =>
          /\ status # "done"
          /\ spins = 0
          /\ status = "ParseError" => error = "Expected ':'"

\* parse_query has returned on the example with the quoted value.
C19_Witness == input = ExampleAnd /\ status = "done" /\ Len(ast.items) = 2


\* The letters o and r, in either case, stand at p; what follows them is
\* whitespace, ')' or the end of the input.
OrLetters(p) ==
    /\ p + 2 <= Len(query)
    /\ query[p + 1] \in {"o", "O"}
    /\ query[p + 2] \in {"r", "R"}
OrBounded(p) ==
    \/ p + 2 = Len(query)
    \/ p + 2 < Len(query) /\ query[p + 3] \in {" ", "\t", "\n", "\r", ")"}
\* The step appends a term to the members of the innermost open group.
MemberAdded ==
    /\ Len(stack') = Len(stack)
    /\ SubSeq(stack', 1, Len(stack) - 1) = SubSeq(stack, 1, Len(stack) - 1)
    /\ Len(stack'[Len(stack)]) = Len(stack[Len(stack)]) + 1
    /\ stack'[Len(stack)][Len(stack'[Len(stack)])].type = "Term"
GroupOf(members) ==
    <<"(">> \o members \o <<")">>

\* C20: inside a group, where a member is expected, the letters or in any
\* case followed by whitespace, ')' or the end of the input are consumed as
\* a separator, which adds no member; followed by anything else (or:x,
\* ORx:"X y") they begin the property name of a term; nothing else is
\* consumed as a separator.  (title:x OR or:x) gives a group of exactly the
\* two terms in that order, separators written twice give no member, and a
\* group written inside a group is a member of it.
C20_OrSeparates ==
    [][ /\ LET p == skip_whitespace(query, pos)
               member == stack'[Len(stack)][Len(stack'[Len(stack)])]
           IN  (InGroupLoop /\ GroupLoopRuns /\ peek(query, p, 1) # <<"(">>) =>
                  IF OrLetters(p) /\ OrBounded(p)
                  THEN /\ pos' = skip_whitespace(query, p + 2)
                       /\ stack' = stack
                       /\ status' = "parsing"
                  ELSE IF OrLetters(p)
                  THEN \/ status' = "ParseError"
                       \/ /\ MemberAdded
                          /\ SubSeq(member.property, 1, 2) = <<"o", "r">>
                          /\ Len(member.property) + Len(member.value) > 2
                  ELSE \/ status' = "ParseError"
                       \/ MemberAdded
                       \/ stack' = stack /\ pos' = p
        /\ (status' = "done" /\ pass' = 1) =>
              /\ input' = GroupOf(TermText(s_title, s_x) \o <<" ","O","R"," ">>
                                    \o TermText(s_or, s_x)) =>
                    ast' = AndGroup(<<OrGroup(<<Term(s_title, s_x),
                                                Term(s_or, s_x)>>)>>)
              /\ input' = GroupOf(TermText(s_title, s_x) \o <<" ","o","r","\t">>
                                    \o TermText(s_ORx, Quoted(<<"X"," ","y">>))) =>
                    ast' = AndGroup(<<OrGroup(<<Term(s_title, s_x),
                                                Term(Lower(s_ORx), <<"X"," ","y">>)>>)>>)
              /\ input' = GroupOf(s_OR \o <<" ","O","R"," ">> \o TermText(s_title, s_x)) =>
                    ast' = AndGroup(<<OrGroup(<<Term(s_title, s_x)>>)>>)
              /\ input' = GroupOf(GroupOf(TermText(s_title, s_x)) \o <<" ","O","R"," ">>
                                    \o TermText(s_title, s_x)) =>
                    ast' = AndGroup(<<OrGroup(<<OrGroup(<<Term(s_title, s_x)>>),
                                                Term(s_title, s_x)>>)>>)
      ]_vars

\* parse_query has returned on (title:x OR or:x) with a group of two terms,
\* the second of the property or.
C20_Witness ==
    /\ input = GroupOf(TermText(s_title, s_x) \o <<" ","O","R"," ">>
                         \o TermText(s_or, s_x))
    /\ status = "done"
    /\ ast.items[1].type = "OrGroup"
    /\ Len(ast.items[1].terms) = 2
    /\ ast.items[1].terms[2].property = s_or


\* The term the parser is about to read has a value that opens with '"',
\* at the 1-based index QuoteOpen of the query.
QuoteOpen == AfterProperty + 2
QuotedAhead ==
    /\ ExpectsTerm /\ StartsProperty /\ HasColon
    /\ QuoteOpen <= Len(query)
    /\ query[QuoteOpen] = "\""
\* The character at index i follows an odd run of backslashes that begins
\* after the opening quote: it is escaped.
BackslashRun(i) ==
    CHOOSE n \in 0..(i - 1 - QuoteOpen) :
        /\ \A j \in (i - n)..(i - 1) : query[j] = "\\"
        /\ n = i - 1 - QuoteOpen \/ query[i - n - 1] # "\\"
IsEscaped(i) == BackslashRun(i) % 2 = 1
ClosingQuotes ==
    { i \in (QuoteOpen + 1)..Len(query) : query[i] = "\"" /\ ~IsEscaped(i) }
QuoteClose ==
    LET closing == ClosingQuotes
    IN  CHOOSE i \in closing : \A j \in closing : i <= j
\* The characters between the quotes without the backslashes that escape.
KeptIndexes ==
    LET close == QuoteClose
    IN  { j \in (QuoteOpen + 1)..(close - 1) :
            ~(query[j] = "\\" /\ ~IsEscaped(j)) }
QuotedText ==
    LET kept == KeptIndexes
    IN  [k \in 1..Cardinality(kept) |->
            query[CHOOSE j \in kept : Cardinality({m \in kept : m <= j}) = k]]
SingleTerm(property, value) == AndGroup(<<Term(property, value)>>)

IsAddressList(x) ==
    x.k = "list" /\ \A i \in 1..Len(x.v) : x.v[i].k = "str"
\* The event with its attendees written another way.
WithAttendees(x) == [event EXCEPT !["attendees"] = x]

\* C26: the outcome of a query on an event whose attendees are a list of
\* str is its outcome on the event with the list JSON-encoded, which
\* json.loads decodes to the same list; and an attendees string that
\* json.loads rejects gives the outcome of an empty list.
C26_AttendeeEncoding ==
    Evaluated =>
        /\ IsAddressList(event["attendees"]) =>
              /\ JsonLoads(json_dumps(event["attendees"].v)).ok
              /\ JsonLoads(json_dumps(event["attendees"].v)).val = event["attendees"]
              /\ result = evaluate(ast, WithAttendees(
                                           StrV(json_dumps(event["attendees"].v))),
                                   NoCache).r
        /\ (event["attendees"].k = "str" /\ ~JsonLoads(event["attendees"].v).ok) =>
              result = evaluate(ast, WithAttendees(ListV(<<>>)), NoCache).r

\* A domain term has matched the meeting, whose attendees are a list, and
\* matches it with the list given as its JSON text.
C26_Witness ==
    /\ result = "True"
    /\ IsAddressList(event["attendees"])
    /\ event["attendees"].v # <<>>
    /\ ast = SingleTerm(s_domain, s_acme_com)
    /\ evaluate(ast, WithAttendees(StrV(json_dumps(event["attendees"].v))),
                NoCache).r = "True"


\* What a member written inside a group adds to the group: a term its
\* Term, a group in parentheses its OrGroup, the OR keyword nothing.
MemberAsts(text) ==
    CASE text = TermText(s_title, s_x) -> <<Term(s_title, s_x)>>
      [] text = TermText(s_or, s_x) -> <<Term(s_or, s_x)>>
      [] text = TermText(s_ORx, Quoted(<<"X", " ", "y">>)) ->
           <<Term(<<"o","r","x">>, <<"X", " ", "y">>)>>
      [] text = GroupOf(TermText(s_title, s_x)) -> <<OrGroup(<<Term(s_title, s_x)>>)>>
      [] text = <<"(", ")">> -> <<OrGroup(<<>>)>>
      [] text = s_OR -> <<>>
RECURSIVE MembersAsts(_)
MembersAsts(s) ==
    IF s = <<>> THEN <<>> ELSE MemberAsts(Head(s)) \o MembersAsts(Tail(s))
WellFormedMembers ==
    { TermText(s_title, s_x), TermText(s_or, s_x),
      TermText(s_ORx, Quoted(<<"X", " ", "y">>)),
      GroupOf(TermText(s_title, s_x)), <<"(", ")">>, s_OR }
\* The groups of well-formed members, each with the members it holds.
WellFormedGroups ==
    { [ text |-> GroupOf(Join(s, sep)), members |-> MembersAsts(s) ] :
        s \in SeqsUpTo(WellFormedMembers, MaxMembers), sep \in MemberSeparators }
WellFormedTexts == { g.text : g \in WellFormedGroups }

IsClockTime(value) ==
    /\ IsTarget(value)
    /\ TargetMinutes(value) < 24 * 60
    /\ DigitValue(value[Len(value) - 1]) * 10 + DigitValue(value[Len(value)]) < 60

\* C29: a time-of-day term whose value is not an optional operator and a
\* clock time HH:MM, hours 0..23 and minutes 0..59, with nothing after the
\* minutes, matches no event.
C29_InvalidTimeNeverMatches ==
    Evaluated =>
        \A t \in AstTerms(ast) :
            (t.property = s_time_of_day /\ ~IsClockTime(t.value)) => ~Matches(t)


\* The key of the event a title or description term reads.
TextKey(property) == IF property = s_title THEN "title" ELSE "description"
\* The event has no text under the key: it is missing, null or empty.
NoText(key) == event[key] \in { Absent, NoneV, StrV(<<>>) }

\* C30: a title term matches no event whose title is empty or missing,
\* and a description term none whose description is, whatever the value
\* of the term.
C30_EmptyTextNeverMatches ==
    Evaluated =>
        \A t \in AstTerms(ast) :
            (t.property \in {s_title, s_description} /\ NoText(TextKey(t.property)))
                => ~Matches(t)


\* The rules match_all reports as matched, and those among the sorted
\* rules that are enabled and for which _evaluate_rule holds.
ReportedMatched == { i \in 1..Len(rules) : results.v[i].matched }
EnabledAndHolding ==
    { i \in 1..Len(rules) : rules[i].is_enabled /\ evaluate_rule(rules[i], event) }
FirstOf(S) == CHOOSE i \in S : \A j \in S : i <= j

\* C28: match_all reports a rule as matched exactly when it is enabled and
\* _evaluate_rule holds for it, so that the first rule reported as matched
\* is the rule match returns, and none is reported when match returns
\* None; a rule without conditions is never reported as matched.
C28_MatchAllAgrees ==
    (caller = "RuleMatcher" /\ results # NoneV) =>
        /\ Len(results.v) = Len(rules)
        /\ \A i \in 1..Len(rules) : results.v[i].id = rules[i].id
        /\ ReportedMatched = EnabledAndHolding
        /\ IF ReportedMatched = {} THEN matching_rule = NoneV
           ELSE matching_rule = [k |-> "rule", id |-> rules[FirstOf(ReportedMatched)].id]
        /\ \A i \in 1..Len(rules) : rules[i].conditions = <<>> => ~results.v[i].matched


\* A time entry made by a rule or a fingerprint.
MadeByRules(entry) == entry.classification_source = "rule"
\* The time entries of an event in a table.
EntriesOf(entries, event_id) ==
    { j \in 1..Len(entries) : entries[j].event_id = event_id }

\* C22: existing classifications are never overwritten.  No step of the
\* calendar sync or of the apply-rules endpoint changes or removes a row of
\* time_entries; a row is inserted only for an event that has none; and
\* so, after any sequence of runs, an event has at most one time entry
\* made by rules.
C22_NeverOverwritten ==
    [][ /\ Len(time_entries') >= Len(time_entries)
        /\ \A j \in 1..Len(time_entries) : time_entries'[j] = time_entries[j]
        /\ \A j \in (Len(time_entries) + 1)..Len(time_entries') :
              EntriesOf(time_entries, time_entries'[j].event_id) = {}
        /\ \A i \in 1..Len(events') :
              Cardinality({ j \in EntriesOf(time_entries', i) :
                              MadeByRules(time_entries'[j]) }) <= 1 ]_vars

\* The apply-rules endpoint, after the calendar sync, has returned from a
\* run over the meeting, which the rule for project 1 matches and which
\* has the time entry the user made: that entry is the only one.
C22_Witness ==
    /\ caller = "apply_rules"
    /\ ~dry_run
    /\ phase = "returned"
    /\ previous # NoneV
    /\ previous.caller = "sync_calendar_events"
    /\ table = ProjectRules
    /\ batch = <<1>>
    /\ time_entries = <<TimeEntry(1, IntV(2), "manual", NoneV)>>

\* An explicit rule tried in the runs matches the current event.
ExplicitRuleMatches == \E s \in EnabledRows : RuleApplies(s)
\* A fingerprint matcher of the run matches the current event.
FingerprintMatches ==
    \E i \in 1..Len(fingerprint_matchers) :
        evaluate(fingerprint_matchers[i].parsed_query, event, NoCache).r = "True"

\* C23: explicit rules take precedence over fingerprints.  In the calendar
\* sync and the apply-rules endpoint the loop over the fingerprint
\* matchers is entered for an event only if no explicit rule matches it;
\* the matcher found for an event that an explicit rule matches is that
\* rule, never a fingerprint; and the time entry inserted for such an
\* event carries the id of a rule, whatever the priority of the rule.
C23_RulesBeforeFingerprints ==
    [][ /\ (caller \in BatchCallers /\ phase = "fingerprints") =>
              ~ExplicitRuleMatches
        /\ (caller \in BatchCallers /\ phase = "end" /\ ExplicitRuleMatches) =>
              matching_rule.k = "rule"
        /\ \A j \in (Len(time_entries) + 1)..Len(time_entries') :
              ExplicitRuleMatches => time_entries'[j].rule_id # NoneV ]_vars

\* The calendar sync has inserted, by the rule of priority 0, the time
\* entry of the meeting, which the fingerprint of project 2 matches too.
C23_Witness ==
    /\ caller = "sync_calendar_events"
    /\ phase = "events"
    /\ table = ProjectRules
    /\ time_entries = <<TimeEntry(1, IntV(1), "rule", IntV(1))>>
    /\ at = 1
    /\ ExplicitRuleMatches
    /\ FingerprintMatches

\* C24: a stored rule or fingerprint whose query cannot be parsed does not
\* abort a batch.  In the calendar sync and the apply-rules endpoint,
\* parse_query on the query of a fingerprint returns or raises ParseError
\* (it never repeats an iteration with the cursor in place, which its
\* loop has no way out of); a ParseError leaves the matchers as they were
\* and the loop over the projects goes on; and the rule found for an event
\* is never one whose query does not parse.
C24_UnparsableSkipped ==
    [][ /\ (caller \in BatchCallers /\ phase = "fingerprint") =>
              /\ spins' = 0
              /\ status = "ParseError" =>
                    /\ fingerprint_matchers' = fingerprint_matchers
                    /\ phase' = "projects"
        /\ (caller \in BatchCallers /\ matching_rule'.k = "rule") =>
              ParsedQuery(table[matching_rule'.id].query) # NoneV ]_vars

\* This step is the return of the apply-rules endpoint with dry_run false,
\* in the run after one with dry_run true.
ReturnsAfterDryRun ==
    /\ caller = "apply_rules"
    /\ ~dry_run
    /\ phase = "events"
    /\ phase' = "returned"
    /\ previous # NoneV
    /\ previous.caller = "apply_rules"
    /\ previous.dry_run
    /\ previous.returned # NoneV

\* C25: the dry run predicts the real run.  No step of the apply-rules
\* endpoint with dry_run true changes the events or the time entries; and
\* the run with dry_run false that follows it, on the same state of the
\* database, returns as classified the would_classify of the dry run and
\* as attendance_updated its would_mark_did_not_attend.
C25_DryRunPredicts ==
    [][ /\ (caller = "apply_rules" /\ dry_run) =>
              UNCHANGED <<events, time_entries>>
        /\ ReturnsAfterDryRun =>
              /\ returned'.classified = previous.returned.would_classify
              /\ returned'.attendance_updated =
                    previous.returned.would_mark_did_not_attend ]_vars

=============================================================================
